---- MODULE Spec2Model ----
(***************************************************************************)
(* Model of the bank statement extractor (main.py, src/account_statement.py,*)
(* src/transactions.py, src/helper_functions.py, src/constants.py).        *)
(*                                                                         *)
(* Text is modelled by TLA+ strings and handled character by character     *)
(* with Len, SubSeq and \o.  TLA+ strings are ASCII, so the Czech letters  *)
(* of the marker texts are written without their diacritics (every text of *)
(* the model, marker or line, is written the same way) and the no-break    *)
(* space U+00A0 is written "~".                                            *)
(*                                                                         *)
(* Python's None is the empty tuple <<>>; a present value v of a field     *)
(* that may be None is the one-element tuple <<v>>.                        *)
(*                                                                         *)
(* A float is modelled by the text that repr() gives for it, as "120.0" or  *)
(* "0.30000000000000004", and its arithmetic is that of the double.        *)
(***************************************************************************)
EXTENDS Integers, Sequences, FiniteSets, TLC

(***************************************************************************)
(* Python values                                                           *)
(***************************************************************************)
None == <<>>

Some(v) == <<v>>

IsNone(o) == o = <<>>

Val(o) == o[1]

Max(a, b) == IF a >= b THEN a ELSE b

Min(a, b) == IF a <= b THEN a ELSE b

(***************************************************************************)
(* str operations                                                          *)
(***************************************************************************)
NBSP == "~"

\* the line feed
LF == "\n"

Digits == {"0", "1", "2", "3", "4", "5", "6", "7", "8", "9"}

UpperLetters == "ABCDEFGHIJKLMNOPQRSTUVWXYZ"

LowerLetters == "abcdefghijklmnopqrstuvwxyz"

\* the vertical tab (0x0B) and the file, group, record and unit separators
\* (0x1C to 0x1F), written as the characters themselves
VT == ""

FS == ""

GS == ""

RS == ""

US == ""

Separators == {FS, GS, RS, US}

\* the characters float() and int() skip before and after a number
NumberSpace == {" ", "\t", "\n", "\r", "\f", VT, NBSP}

\* the characters str.strip() removes and \s matches
Whitespace == NumberSpace \cup Separators

Char(s, i) == SubSeq(s, i, i)

\* sub in s
Contains(s, sub) ==
    \E i \in 1..(Len(s) - Len(sub) + 1) : SubSeq(s, i, i + Len(sub) - 1) = sub

\* s.endswith(suffix)
EndsWith(s, suffix) ==
    /\ Len(suffix) <= Len(s)
    /\ SubSeq(s, Len(s) - Len(suffix) + 1, Len(s)) = suffix

\* the only element of a set of one element; {e : x \in {v}} is e with v for x
The(S) == CHOOSE x \in S : TRUE

\* the least and the greatest element of a non-empty set of integers
Least(S) == The({CHOOSE k \in T : \A j \in T : k <= j : T \in {S}})

Greatest(S) == The({CHOOSE k \in T : \A j \in T : k >= j : T \in {S}})

\* s without the characters of W at its two ends
StripOf(s, W) ==
    The({The({IF keep = {} THEN ""
              ELSE SubSeq(t, CHOOSE i \in keep : \A j \in keep : i <= j,
                             CHOOSE i \in keep : \A j \in keep : i >= j) :
                keep \in {{i \in 1..Len(t) : Char(t, i) \notin W}}}) : t \in {s}})

\* s.strip()
Strip(s) == StripOf(s, Whitespace)

\* s.replace(old, new), old non-empty: leftmost non-overlapping occurrences
RECURSIVE Replace(_, _, _)
Replace(s, old, new) ==
    The({The({IF at = {} THEN t
              ELSE SubSeq(t, 1, Least(at) - 1) \o new
                   \o Replace(SubSeq(t, Least(at) + Len(old), Len(t)), old, new) :
                at \in {{i \in 1..(Len(t) - Len(old) + 1) :
                            SubSeq(t, i, i + Len(old) - 1) = old}}}) : t \in {s}})

\* s.lower() on ASCII letters
LowerChar(c) ==
    IF \E k \in 1..26 : Char(UpperLetters, k) = c
    THEN Char(LowerLetters, CHOOSE k \in 1..26 : Char(UpperLetters, k) = c)
    ELSE c

RECURSIVE Lower(_)
Lower(s) ==
    The({IF Len(t) <= 1 THEN LowerChar(t)
         ELSE Lower(SubSeq(t, 1, Len(t) \div 2)) \o Lower(SubSeq(t, Len(t) \div 2 + 1, Len(t))) :
            t \in {s}})

\* s.isdigit()
IsDigit(s) == The({Len(t) > 0 /\ \A i \in 1..Len(t) : Char(t, i) \in Digits : t \in {s}})

\* s[-4:]
Last4(s) == SubSeq(s, Max(1, Len(s) - 3), Len(s))

\* s.split(" ")[0]
SplitFirst(s) ==
    LET sp == {i \in 1..Len(s) : Char(s, i) = " "}
    IN  IF sp = {} THEN s
        ELSE SubSeq(s, 1, (CHOOSE i \in sp : \A j \in sp : i <= j) - 1)

\* s.split(" ")[-1]
SplitLast(s) ==
    LET sp == {i \in 1..Len(s) : Char(s, i) = " "}
    IN  IF sp = {} THEN s
        ELSE SubSeq(s, (CHOOSE i \in sp : \A j \in sp : i >= j) + 1, Len(s))

\* value of a string of decimal digits ("" is 0)
RECURSIVE DigitsValue(_)
DigitsValue(s) ==
    The({IF t = "" THEN 0
         ELSE 10 * DigitsValue(SubSeq(t, 1, Len(t) - 1))
              + (CHOOSE d \in 0..9 : Char("0123456789", d + 1) = Char(t, Len(t))) :
            t \in {s}})

\* str(n) of a natural number
RECURSIVE DigitsText(_)
DigitsText(n) ==
    IF n < 10 THEN Char("0123456789", n + 1)
    ELSE DigitsText(n \div 10) \o Char("0123456789", (n % 10) + 1)

\* the sign of a numeral and the numeral without its sign
SignOf(t) == IF Len(t) > 0 /\ Char(t, 1) = "-" THEN 0 - 1 ELSE 1

Unsigned(t) == IF Len(t) > 0 /\ Char(t, 1) \in {"+", "-"} THEN SubSeq(t, 2, Len(t)) ELSE t

\* t without the underscores that stand between two digits
RECURSIVE NoUnderscores(_)
NoUnderscores(t) ==
    The({The({IF us = {} THEN s
              ELSE SubSeq(s, 1, Least(us) - 1)
                   \o NoUnderscores(SubSeq(s, Least(us) + 1, Len(s))) :
                us \in {{i \in 2..(Len(s) - 1) :
                            /\ Char(s, i) = "_"
                            /\ Char(s, i - 1) \in Digits
                            /\ Char(s, i + 1) \in Digits}}}) : s \in {t}})

\* int(s): optional surrounding whitespace, optional sign, decimal digits
\* with single underscores allowed between them.
\* Result [ok |-> the text is accepted, val |-> its value].
ParseInt(s) ==
    The({The({IF IsDigit(ds)
              THEN [ok |-> TRUE, val |-> SignOf(t) * DigitsValue(ds)]
              ELSE [ok |-> FALSE, val |-> "0.0"] :
                ds \in {NoUnderscores(Unsigned(t))}}) : t \in {StripOf(s, NumberSpace)}})

\* 10^n
RECURSIVE Pow10(_)
Pow10(n) == IF n = 0 THEN 1 ELSE 10 * Pow10(n - 1)

(***************************************************************************)
(* natural numbers of any size                                             *)
(*                                                                         *)
(* A natural number is the sequence of its digits in base 10000, the       *)
(* least significant first and the last one not 0; <<>> is 0.              *)
(***************************************************************************)
RECURSIVE NatOf(_)
NatOf(n) == IF n = 0 THEN <<>> ELSE <<n % 10000>> \o NatOf(n \div 10000)

RECURSIVE Trim(_)
Trim(a) ==
    The({IF x = <<>> \/ x[Len(x)] # 0 THEN x ELSE Trim(SubSeq(x, 1, Len(x) - 1)) : x \in {a}})

\* a * m for a small m (at most 2^17)
RECURSIVE TimesFrom(_, _, _, _)
TimesFrom(a, m, i, carry) ==
    IF i > Len(a) THEN NatOf(carry)
    ELSE The({<<t % 10000>> \o TimesFrom(a, m, i + 1, t \div 10000) : t \in {a[i] * m + carry}})

Times(a, m) == The({IF y = 0 THEN <<>> ELSE TimesFrom(x, y, 1, 0) : x \in {a}, y \in {m}})

\* a + b
RECURSIVE PlusFrom(_, _, _, _)
PlusFrom(a, b, i, carry) ==
    IF i > Len(a) /\ i > Len(b) THEN NatOf(carry)
    ELSE The({<<t % 10000>> \o PlusFrom(a, b, i + 1, t \div 10000) :
                t \in {(IF i <= Len(a) THEN a[i] ELSE 0)
                       + (IF i <= Len(b) THEN b[i] ELSE 0) + carry}})

Plus(a, b) == The({PlusFrom(x, y, 1, 0) : x \in {a}, y \in {b}})

\* a - b for a >= b
RECURSIVE MinusFrom(_, _, _, _)
MinusFrom(a, b, i, borrow) ==
    IF i > Len(a) THEN <<>>
    ELSE The({<<(t + 10000) % 10000>> \o MinusFrom(a, b, i + 1, IF t < 0 THEN 1 ELSE 0) :
                t \in {a[i] - (IF i <= Len(b) THEN b[i] ELSE 0) - borrow}})

Minus(a, b) == The({Trim(MinusFrom(x, y, 1, 0)) : x \in {a}, y \in {b}})

\* -1, 0, 1 as a is below, equal to, above b
Compare(a, b) ==
    The({IF Len(x) # Len(y) THEN (IF Len(x) < Len(y) THEN 0 - 1 ELSE 1)
         ELSE The({IF d = {} THEN 0
                   ELSE IF x[Greatest(d)] < y[Greatest(d)] THEN 0 - 1 ELSE 1 :
                     d \in {{i \in 1..Len(x) : x[i] # y[i]}}}) : x \in {a}, y \in {b}})

\* [q, r]: the quotient and the remainder of a by a small m (at most 2^17),
\* the digits taken from the most significant one: digit i with the
\* remainder rem and the quotient q of the digits above it
RECURSIVE DivModFrom(_, _, _, _, _)
DivModFrom(a, m, i, rem, q) ==
    IF i = 0 THEN [q |-> Trim(q), r |-> rem]
    ELSE The({DivModFrom(a, m, i - 1, s.r, s.q) :
                s \in {[r |-> (rem * 10000 + a[i]) % m,
                        q |-> <<(rem * 10000 + a[i]) \div m>> \o q]}})

DivMod(a, m) == The({DivModFrom(x, y, Len(x), 0, <<>>) : x \in {a}, y \in {m}})

\* a * 10^n, floor(a / 10^n), a mod 10^n
TimesPow10(a, n) ==
    The({IF x = <<>> THEN <<>> ELSE [i \in 1..(k \div 4) |-> 0] \o Times(x, Pow10(k % 4)) :
            x \in {a}, k \in {n}})

DivPow10(a, n) ==
    The({DivMod(SubSeq(x, (k \div 4) + 1, Len(x)), Pow10(k % 4)).q : x \in {a}, k \in {n}})

ModPow10(a, n) ==
    The({IF Len(x) <= k \div 4 THEN x
         ELSE Trim(Append(SubSeq(x, 1, k \div 4), x[(k \div 4) + 1] % Pow10(k % 4))) :
            x \in {a}, k \in {n}})

\* a * 2^n, a * 5^n
RECURSIVE TimesPow2(_, _)
TimesPow2(a, n) ==
    IF n = 0 THEN a
    ELSE IF n >= 13 THEN TimesPow2(Times(a, 8192), n - 13)
    ELSE TimesPow2(Times(a, 2), n - 1)

RECURSIVE TimesPow5(_, _)
TimesPow5(a, n) ==
    IF n = 0 THEN a
    ELSE IF n >= 7 THEN TimesPow5(Times(a, 78125), n - 7)
    ELSE TimesPow5(Times(a, 5), n - 1)

\* the number written by a string of decimal digits, and back
RECURSIVE NatOfText(_)
NatOfText(t) ==
    The({IF Len(s) <= 4 THEN NatOf(DigitsValue(s))
         ELSE Trim(<<DigitsValue(SubSeq(s, Len(s) - 3, Len(s)))>>
                   \o NatOfText(SubSeq(s, 1, Len(s) - 4))) : s \in {t}})

RECURSIVE TextOfNat(_)
TextOfNat(a) ==
    The({IF x = <<>> THEN "0"
         ELSE IF Len(x) = 1 THEN DigitsText(x[1])
         ELSE TextOfNat(SubSeq(x, 2, Len(x))) \o SubSeq(DigitsText(10000 + x[1]), 2, 5) :
            x \in {a}})

\* the number of decimal digits of a
NumDigits(a) ==
    The({IF x = <<>> THEN 0 ELSE 4 * (Len(x) - 1) + Len(DigitsText(x[Len(x)])) : x \in {a}})

(***************************************************************************)
(* Python's float: the IEEE 754 double                                     *)
(*                                                                         *)
(* A float is modelled by the text repr() gives for it, which names one    *)
(* double: "120.0", "-0.001", "0.30000000000000004", "1e-05", "-0.0",      *)
(* "inf", "-inf", "nan".  The arithmetic is done on the double itself, a   *)
(* mantissa of 53 bits times a power of two, and rounds as the machine     *)
(* does, to the nearest double and at a tie to the one of even mantissa.   *)
(***************************************************************************)
Two40 == <<7776, 1162, 995, 1>>

Two52 == <<496, 2737, 5996, 4503>>

Two53 == <<992, 5474, 1992, 9007>>

Two54 == <<1984, 948, 3985, 8014, 1>>

Two67 == <<2928, 7641, 5896, 3952, 4757, 1>>

\* t without its lowest drop digits of base 10000
High(t, drop) == SubSeq(t, drop + 1, Len(t))

\* [t, s, sticky]: t * 2^s for the s that gives floor(t * 2^s / 10000^drop)
\* 54 bits, one more than the mantissa, or 1075 when that gives fewer: the
\* least exponent of a double is -1074
RECURSIVE ScaleUp(_, _, _)
ScaleUp(t, drop, s) ==
    The({IF s >= 1075 \/ Compare(High(x, drop), Two53) >= 0
         THEN [t |-> x, s |-> s, sticky |-> FALSE]
         ELSE IF s + 13 <= 1075 /\ Compare(High(x, drop), Two40) < 0
         THEN ScaleUp(Times(x, 8192), drop, s + 13)
         ELSE ScaleUp(Times(x, 2), drop, s + 1) : x \in {t}})

\* the same for a t of more than 54 bits: floor(t / 2^-s), sticky when a
\* remainder was dropped
RECURSIVE ScaleDown(_, _, _, _)
ScaleDown(t, drop, s, sticky) ==
    The({IF Compare(High(x, drop), Two54) < 0 THEN [t |-> x, s |-> s, sticky |-> rest]
         ELSE IF Compare(High(x, drop), Two67) >= 0
         THEN ScaleDown(DivMod(x, 8192).q, drop, s - 13, rest \/ DivMod(x, 8192).r # 0)
         ELSE ScaleDown(DivMod(x, 2).q, drop, s - 1, rest \/ x[1] % 2 = 1) :
            x \in {t}, rest \in {sticky}})

\* the mantissa of 54 bits q with the rest sticky, rounded to 53 bits
RoundMantissa(q, sticky) ==
    The({IF half.r = 1 /\ (sticky \/ (half.q # <<>> /\ half.q[1] % 2 = 1))
         THEN Plus(half.q, <<1>>) ELSE half.q : half \in {DivMod(q, 2)}})

\* [mant, e2]: the double mant * 2^e2 nearest to n * 10^k10 for a natural n
\* above 0, the mantissa in 2^52 .. 2^53 - 1 unless e2 is -1074; a mantissa
\* of 0 is 0.0 and an e2 above 971 is inf
NearestDouble(n, k10) ==
    The({The({The({IF Compare(mant, Two53) = 0 THEN [mant |-> Two52, e2 |-> 2 - sc.s]
                   ELSE [mant |-> mant, e2 |-> 1 - sc.s] :
                     mant \in {RoundMantissa(
                                  High(sc.t, drop),
                                  sc.sticky \/ \E i \in 1..Min(drop, Len(sc.t)) : sc.t[i] # 0)}}) :
                sc \in {IF Compare(High(t0, drop), Two54) >= 0
                        THEN ScaleDown(t0, drop, 0, FALSE)
                        ELSE ScaleUp(t0, drop, 0)}}) :
           t0 \in {TimesPow10(n, IF k10 >= 0 THEN k10 ELSE (4 - ((0 - k10) % 4)) % 4)},
           drop \in {IF k10 >= 0 THEN 0 ELSE (((4 - ((0 - k10) % 4)) % 4) - k10) \div 4}})

\* [mant, e2]: mant * 2^e2 with the factors 2 of mant moved to the exponent
\* as long as that is below 0
RECURSIVE Reduced(_, _)
Reduced(mant, e2) ==
    The({IF k >= 0 \/ m[1] % 2 = 1 THEN [mant |-> m, e2 |-> k]
         ELSE IF k <= 0 - 13 /\ DivMod(m, 8192).r = 0
         THEN Reduced(DivMod(m, 8192).q, k + 13)
         ELSE Reduced(DivMod(m, 2).q, k + 1) : m \in {mant}, k \in {e2}})

\* [n, k]: the double d is exactly n / 10^k
Exact(d) ==
    The({IF r.e2 >= 0 THEN [n |-> TimesPow2(r.mant, r.e2), k |-> 0]
         ELSE [n |-> TimesPow5(r.mant, 0 - r.e2), k |-> 0 - r.e2] :
            r \in {The({Reduced(v.mant, v.e2) : v \in {d}})}})

\* a decimal at four times the distance dist4 from a double rounds to the
\* double when that is below twice the gap to the next double, gap2, or is
\* equal to it and the mantissa is even
Within(dist4, gap2, even) ==
    The({c < 0 \/ (even /\ c = 0) : c \in {Compare(dist4, gap2)}})

\* x with its last j digits dropped rounds to the double of exact value x
\* (in the unit of x): x is above it by x mod 10^j
LowOk(x, lowGap2, even, j) == Within(Times(ModPow10(x, j), 4), lowGap2, even)

\* the same for the decimal one above in the last digit kept
HighOk(x, highGap2, even, j) ==
    Within(Times(Minus(TimesPow10(<<1>>, j), ModPow10(x, j)), 4), highGap2, even)

\* [n, j]: of x with its last j digits dropped and the decimal one above it
\* in the last digit kept, the one that rounds to the double of exact value
\* x, and of two the one nearer to x, at a tie the even one
Nearer(x, lowGap2, highGap2, even, j) ==
    The({IF low /\ (~high \/ c < 0 \/ (c = 0 /\ fl[1] % 2 = 0)) THEN [n |-> fl, j |-> j]
         ELSE [n |-> Plus(fl, <<1>>), j |-> j] :
            low \in {LowOk(x, lowGap2, even, j)},
            high \in {HighOk(x, highGap2, even, j)},
            c \in {Compare(Times(ModPow10(x, j), 2), TimesPow10(<<1>>, j))},
            fl \in {DivPow10(x, j)}})

\* [n, j]: the shortest decimal n * 10^j (in the unit of x) that rounds to
\* the double of exact value x, and of two the one nearer to x: the one that
\* drops the most digits j of x; seventeen digits name every double.
\* lowGap2 and highGap2 are twice the gaps to the doubles below and above.
Shortest(x, lowGap2, highGap2, even) ==
    The({The({Nearer(x1, low, high, even, j) :
                j \in {Greatest({i \in Max(0, NumDigits(x1) - 17)..(NumDigits(x1) - 1) :
                                    \/ i = 0
                                    \/ LowOk(x1, low, even, i)
                                    \/ HighOk(x1, high, even, i)})}}) :
           x1 \in {x}, low \in {lowGap2}, high \in {highGap2}})

\* digits without the zeros at its end, at its start
NoZerosRight(digits) ==
    The({SubSeq(d, 1, Greatest({0} \cup {i \in 1..Len(d) : Char(d, i) # "0"})) :
            d \in {digits}})

NoZerosLeft(digits) ==
    The({SubSeq(d, Least({Len(d) + 1} \cup {i \in 1..Len(d) : Char(d, i) # "0"}), Len(d)) :
            d \in {digits}})

\* n zeros
RECURSIVE ZerosText(_)
ZerosText(n) == IF n <= 0 THEN "" ELSE "0" \o ZerosText(n - 1)

\* repr() of the float 0.digits * 10^pt, digits being the shortest that name
\* it: with an exponent when pt is below -3 or above 16
ReprText(neg, digits, pt) ==
    The({(IF neg THEN "-" ELSE "")
         \o (IF d = "" THEN "0.0"
             ELSE IF p > 16 \/ p < 0 - 3
             THEN Char(d, 1)
                  \o (IF Len(d) > 1 THEN "." \o SubSeq(d, 2, Len(d)) ELSE "")
                  \o "e" \o (IF p < 1 THEN "-" ELSE "+")
                  \o (IF p - 1 \in (0 - 9)..9 THEN "0" ELSE "")
                  \o DigitsText(IF p < 1 THEN 1 - p ELSE p - 1)
             ELSE IF p <= 0 THEN "0." \o ZerosText(0 - p) \o d
             ELSE IF p >= Len(d) THEN d \o ZerosText(p - Len(d)) \o ".0"
             ELSE SubSeq(d, 1, p) \o "." \o SubSeq(d, p + 1, Len(d))) :
            d \in {digits}, p \in {pt}})

\* repr() of the double d of a mantissa above 0
Repr(neg, d) ==
    The({The({ReprText(neg, NoZerosRight(TextOfNat(short.n)),
                       NumDigits(short.n) + short.j - x.k) :
                short \in {Shortest(x.n, IF d.mant = Two52 /\ d.e2 > 0 - 1074 THEN x.gap
                                         ELSE Times(x.gap, 2),
                                    Times(x.gap, 2), d.mant[1] % 2 = 0)}}) :
           x \in {IF d.e2 >= 0
                  THEN [n |-> TimesPow2(d.mant, d.e2), k |-> 0, gap |-> TimesPow2(<<1>>, d.e2)]
                  ELSE [n |-> TimesPow5(d.mant, 0 - d.e2), k |-> 0 - d.e2,
                        gap |-> TimesPow5(<<1>>, 0 - d.e2)]}})

\* -1, 0, 1 as the fraction 0.a is below, equal to, above 0.b, for digits a and
\* b without a zero at the end
CompareDigits(a, b) ==
    The({The({IF d = {} THEN (IF Len(x) = Len(y) THEN 0 ELSE IF Len(x) < Len(y) THEN 0 - 1 ELSE 1)
              ELSE IF DigitsValue(Char(x, Least(d))) < DigitsValue(Char(y, Least(d))) THEN 0 - 1
              ELSE 1 :
                d \in {{i \in 1..Min(Len(x), Len(y)) : Char(x, i) # Char(y, i)}}}) :
           x \in {a}, y \in {b}})

\* the float nearest to 0.digits * 10^pt, digits without a zero at either
\* end.  The greatest double is 1.7976931348623157e+308 and half the least
\* one is below 0.247e-323.  A decimal of at most 15 digits in the range of
\* the doubles of a full mantissa, which starts below 1e-307, is itself the
\* shortest decimal that names its double.  The other decimals are rounded
\* with all their digits, a work that grows with the exponent: the numerals
\* of the statements are far within its reach, and those below 1e-307 and
\* those of more than 15 digits with an exponent beyond some thirty are not
\* among the texts read
FloatOfDecimal(neg, digits, pt) ==
    The({IF ds = "" \/ p < 0 - 323 THEN ReprText(neg, "", 0)
         ELSE IF p > 309 THEN (IF neg THEN "-inf" ELSE "inf")
         ELSE IF Len(ds) <= 15 /\ p > 0 - 307
         THEN (IF p < 309 \/ CompareDigits(ds, "17976931348623157") <= 0
               THEN ReprText(neg, ds, p)
               ELSE IF neg THEN "-inf" ELSE "inf")
         ELSE The({IF d.mant = <<>> THEN ReprText(neg, "", 0)
                   ELSE IF d.e2 > 971 THEN (IF neg THEN "-inf" ELSE "inf")
                   ELSE Repr(neg, d) :
                     d \in {NearestDouble(NatOfText(ds), p - Len(ds))}}) :
            ds \in {digits}, p \in {pt}})

\* the position of the decimal point of a numeral, Len + 1 without one
DotOf(body) ==
    The({Least({Len(b) + 1} \cup {i \in 1..Len(b) : Char(b, i) = "."}) : b \in {body}})

\* a numeral of digits with at most one decimal point and at least one digit
IsDecimal(body) ==
    The({/\ Cardinality({i \in 1..Len(b) : Char(b, i) = "."}) <= 1
         /\ \E i \in 1..Len(b) : Char(b, i) \in Digits
         /\ \A i \in 1..Len(b) : Char(b, i) \in Digits \/ Char(b, i) = "." : b \in {body}})

\* the position of the exponent letter of a numeral, Len + 1 without one
ExponentOf(body) ==
    The({Least({Len(b) + 1} \cup {i \in 1..Len(b) : Char(b, i) \in {"e", "E"}}) : b \in {body}})

\* the value of the digits of an exponent; beyond five digits every float is
\* 0.0 or inf
ExponentValue(digits) ==
    The({IF Len(d) > 5 THEN 99999 ELSE DigitsValue(d) : d \in {NoZerosLeft(digits)}})

\* [ok, digits, pt]: the decimal m times 10^e is 0.digits * 10^pt, digits
\* without a zero at either end
DecimalTimes(m, e) ==
    The({[ok |-> TRUE,
          digits |-> NoZerosRight(NoZerosLeft(all)),
          pt |-> DotOf(m) - 1 + e - (Len(all) - Len(NoZerosLeft(all)))] :
            all \in {The({SubSeq(b, 1, DotOf(b) - 1) \o SubSeq(b, DotOf(b) + 1, Len(b)) :
                            b \in {m}})}})

\* [ok, digits, pt]: the numeral body, unsigned, is a decimal with an
\* optional exponent and names 0.digits * 10^pt, digits without a zero at
\* either end
Numeral(body) ==
    The({The({IF IsDecimal(p.m) /\ (~p.exp \/ IsDigit(Unsigned(p.x)))
              THEN DecimalTimes(p.m, IF p.exp THEN SignOf(p.x) * ExponentValue(Unsigned(p.x))
                                     ELSE 0)
              ELSE [ok |-> FALSE, digits |-> "", pt |-> 0] :
                p \in {[m |-> SubSeq(t, 1, ExponentOf(t) - 1),
                        exp |-> ExponentOf(t) <= Len(t),
                        x |-> IF ExponentOf(t) <= Len(t)
                              THEN SubSeq(t, ExponentOf(t) + 1, Len(t)) ELSE ""]}}) :
           t \in {NoUnderscores(body)}})

\* float(s): optional surrounding whitespace, optional sign, then a numeral,
\* or one of the words nan, inf, infinity in any case.  Result [ok, val].
ParseFloat(s) ==
    The({IF Lower(Unsigned(t)) \in {"inf", "infinity"}
         THEN [ok |-> TRUE, val |-> IF SignOf(t) < 0 THEN "-inf" ELSE "inf"]
         ELSE IF Lower(Unsigned(t)) = "nan" THEN [ok |-> TRUE, val |-> "nan"]
         ELSE The({IF n.ok THEN [ok |-> TRUE,
                                 val |-> FloatOfDecimal(SignOf(t) < 0, n.digits, n.pt)]
                   ELSE [ok |-> FALSE, val |-> "0.0"] : n \in {Numeral(Unsigned(t))}}) :
            t \in {StripOf(s, NumberSpace)}})

IsNaN(x) == x = "nan"

\* math.isfinite(x)
IsFinite(x) == x \notin {"nan", "inf", "-inf"}

IsNegative(x) == Char(x, 1) = "-"

\* 0.0, -0.0 and the int 0, which is the default of Transaction.amount and
\* the sum of no amounts and is written "0"
IsZero(x) == x \in {"0.0", "-0.0", "0"}

\* -x, x * -1
FloatNeg(x) ==
    The({IF IsNaN(a) \/ a = "0" THEN a
         ELSE IF IsNegative(a) THEN SubSeq(a, 2, Len(a))
         ELSE "-" \o a : a \in {x}})

\* the double of a finite float that is not 0
DoubleOf(x) ==
    The({NearestDouble(NatOfText(n.digits), n.pt - Len(n.digits)) :
            n \in {Numeral(Unsigned(x))}})

\* -1, 0, 1 as the float x, not negative, is below, equal to, above y
CompareMagnitude(x, y) ==
    IF x = y THEN 0
    ELSE IF x = "inf" THEN 1
    ELSE IF y = "inf" THEN 0 - 1
    ELSE The({IF a.digits = "" \/ b.digits = ""
              THEN (IF a.digits # "" THEN 1 ELSE IF b.digits # "" THEN 0 - 1 ELSE 0)
              ELSE IF a.pt # b.pt THEN (IF a.pt < b.pt THEN 0 - 1 ELSE 1)
              ELSE CompareDigits(a.digits, b.digits) :
                a \in {Numeral(x)}, b \in {Numeral(y)}})

\* -1, 0, 1 as x is below, equal to, above y, neither a nan
FloatCompare(x, y) ==
    The({IF IsZero(a) /\ IsZero(b) THEN 0
         ELSE IF IsNegative(a) # IsNegative(b) THEN (IF IsNegative(a) THEN 0 - 1 ELSE 1)
         ELSE IF IsNegative(a) THEN CompareMagnitude(Unsigned(b), Unsigned(a))
         ELSE CompareMagnitude(a, b) : a \in {x}, b \in {y}})

\* x < y, x == y: false with a nan
FloatLess(x, y) ==
    The({~IsNaN(a) /\ ~IsNaN(b) /\ FloatCompare(a, b) < 0 : a \in {x}, b \in {y}})

FloatEqual(x, y) ==
    The({~IsNaN(a) /\ ~IsNaN(b) /\ FloatCompare(a, b) = 0 : a \in {x}, b \in {y}})

\* the float nearest to n / 10^k, n above 0
FloatOfExact(neg, n, k) ==
    The({IF d.mant = <<>> THEN ReprText(neg, "", 0)
         ELSE IF d.e2 > 971 THEN (IF neg THEN "-inf" ELSE "inf")
         ELSE Repr(neg, d) : d \in {NearestDouble(n, 0 - k)}})

\* x + y of two finite floats that are not 0: the float nearest to the sum
\* of the two doubles, 0.0 when that is 0
AddDoubles(x, y) ==
    The({The({IF IsNegative(x) # IsNegative(y) /\ Compare(an, bn) = 0 THEN "0.0"
              ELSE FloatOfExact(IF IsNegative(x) = IsNegative(y) \/ Compare(an, bn) > 0
                                THEN IsNegative(x) ELSE IsNegative(y),
                                IF IsNegative(x) = IsNegative(y) THEN Plus(an, bn)
                                ELSE IF Compare(an, bn) > 0 THEN Minus(an, bn)
                                ELSE Minus(bn, an),
                                Max(a.k, b.k)) :
                an \in {TimesPow10(a.n, Max(a.k, b.k) - a.k)},
                bn \in {TimesPow10(b.n, Max(a.k, b.k) - b.k)}}) :
           a \in {Exact(DoubleOf(x))}, b \in {Exact(DoubleOf(y))}})

\* x + y: nan with a nan and for the sum of the two infinities; -0.0 only
\* for the sum of two -0.0, and the int 0 only for the sum of two ints 0
FloatAdd(x, y) ==
    The({IF a = "0" /\ b = "0" THEN "0"
         ELSE IF IsNaN(a) \/ IsNaN(b) THEN "nan"
         ELSE IF ~IsFinite(a) THEN (IF IsFinite(b) \/ a = b THEN a ELSE "nan")
         ELSE IF ~IsFinite(b) THEN b
         ELSE IF IsZero(a) /\ IsZero(b)
         THEN (IF a = "-0.0" /\ b = "-0.0" THEN "-0.0" ELSE "0.0")
         ELSE IF IsZero(a) THEN b
         ELSE IF IsZero(b) THEN a
         ELSE AddDoubles(a, b) : a \in {x}, b \in {y}})

\* x - y
FloatSub(x, y) ==
    The({IF a = "0" /\ b = "0" THEN "0" ELSE FloatAdd(a, FloatNeg(IF b = "0" THEN "0.0" ELSE b)) :
            a \in {x}, b \in {y}})

\* the hundredths nearest to n / 10^k, and at a tie the even ones
NearestHundredths(n, k) ==
    IF k <= 2 THEN TimesPow10(n, 2 - k)
    ELSE The({IF c > 0 \/ (c = 0 /\ q # <<>> /\ q[1] % 2 = 1) THEN Plus(q, <<1>>) ELSE q :
                q \in {DivPow10(n, k - 2)},
                c \in {Compare(Times(ModPow10(n, k - 2), 2), TimesPow10(<<1>>, k - 2))}})

\* round(x, 2): the float nearest to the hundredths nearest to the double,
\* the sign kept; a float that repr writes with at most fifteen digits, two
\* of them fractional, is the float nearest to these hundredths already, a
\* float of 1e16 or more is a whole number and one below 0.001 rounds to 0
Round2(x) ==
    The({IF ~IsFinite(a) \/ IsZero(a) THEN a
         ELSE The({IF n.pt > 16 \/ (Len(n.digits) <= 15 /\ Len(n.digits) - n.pt <= 2) THEN a
                   ELSE IF n.pt < 0 - 2 THEN ReprText(IsNegative(a), "", 0)
                   ELSE The({FloatOfDecimal(IsNegative(a), NoZerosRight(TextOfNat(h)),
                                            NumDigits(h) - 2) :
                               h \in {The({NearestHundredths(e.n, e.k) :
                                             e \in {Exact(DoubleOf(a))}})}}) :
                     n \in {Numeral(Unsigned(a))}}) : a \in {x}})

(***************************************************************************)
(* list operations                                                         *)
(***************************************************************************)
\* lines[k] for a Python index k (0-based, a negative k counts from the end).
\* Result [ok |-> no IndexError, v |-> the element].
At(lines, k) ==
    IF k >= 0 /\ k < Len(lines) THEN [ok |-> TRUE, v |-> lines[k + 1]]
    ELSE IF k < 0 /\ 0 - k <= Len(lines) THEN [ok |-> TRUE, v |-> lines[Len(lines) + k + 1]]
    ELSE [ok |-> FALSE, v |-> ""]

\* the 0-based indices k >= from of lines
From(lines, from) == {k \in 0..(Len(lines) - 1) : k >= from}

(***************************************************************************)
(* src/helper_functions.py                                                 *)
(***************************************************************************)
pdf_amount_to_float(amount_text) ==
    The({[ok |-> parsed.ok, val |-> Round2(parsed.val)] :
            parsed \in {ParseFloat(Replace(Replace(Replace(
                            amount_text, " ", ""), NBSP, ""), ",", "."))}})

\* \w of the regular expressions
IsWordChar(c) ==
    \/ c \in Digits
    \/ c = "_"
    \/ \E k \in 1..26 : c = Char(UpperLetters, k) \/ c = Char(LowerLetters, k)

\* the positions where \b\d{2}\.\d{2}\.\d{4}\b matches in text
DateMatches(text) ==
    {p \in 1..(Len(text) - 9) :
        /\ \A o \in {0, 1, 3, 4, 6, 7, 8, 9} : Char(text, p + o) \in Digits
        /\ Char(text, p + 2) = "."
        /\ Char(text, p + 5) = "."
        /\ (p = 1 \/ ~IsWordChar(Char(text, p - 1)))
        /\ (p + 9 = Len(text) \/ ~IsWordChar(Char(text, p + 10)))}

\* the first match, or None
text_contains_date(text) ==
    IF DateMatches(text) = {} THEN None
    ELSE Some(SubSeq(text, Least(DateMatches(text)), Least(DateMatches(text)) + 9))

\* the line is an amount line
IsAmountLine(line) ==
    /\ Contains(line, "-") \/ Contains(line, "+") \/ line = "0.00"
    /\ IsDigit(Replace(Replace(Replace(Replace(Replace(Replace(
           line, "+", ""), "-", ""), " ", ""), NBSP, ""), ".", ""), ",", ""))

\* [line, idx]: the first amount line at index >= search_from_line_index and
\* its index counted from there, or None and None
\* a search that counts the index of the line from the start of the page
AmountLineFromStart(lines, search_from_line_index) ==
    LET hits == {k \in From(lines, search_from_line_index) : IsAmountLine(lines[k + 1])}
    IN  IF hits = {} THEN [line |-> None, idx |-> None]
        ELSE [line |-> Some(lines[Least(hits) + 1]), idx |-> Some(Least(hits))]

get_amount_line(lines, search_from_line_index) ==
    LET hits == {k \in From(lines, search_from_line_index) : IsAmountLine(lines[k + 1])}
    IN  IF hits = {} THEN [line |-> None, idx |-> None]
        ELSE [line |-> Some(lines[Least(hits) + 1]),
              idx |-> Some(Least(hits) - search_from_line_index)]

\* re.findall(r"\d{4}/\d{4}", line) is not empty
HasAccountNr(line) ==
    \E p \in 1..(Len(line) - 8) :
        /\ \A o \in {0, 1, 2, 3, 5, 6, 7, 8} : Char(line, p + o) \in Digits
        /\ Char(line, p + 4) = "/"

\* [line, idx]: the first line at index >= search_from_line_index holding an
\* account number, stripped, and its index counted from there, or None and None
get_account_nr_line(extracted_lines, search_from_line_index) ==
    LET hits == {k \in From(extracted_lines, search_from_line_index) :
                    HasAccountNr(extracted_lines[k + 1])}
    IN  IF hits = {} THEN [line |-> None, idx |-> None]
        ELSE [line |-> Some(Strip(extracted_lines[Least(hits) + 1])),
              idx |-> Some(Least(hits) - search_from_line_index)]

(***************************************************************************)
(* src/transactions.py: the Transaction record and the kinds               *)
(***************************************************************************)
\* the order in which get_transactions_pdf tries the kinds on a line
Kinds == <<"CardPaymentIncoming", "IncomingPayment", "OutgoingPayment",
           "CardPaymentDebit", "CardAtmCashOut", "BankPayedService",
           "OutgoingPaymentPeriodic", "InterestPositive", "TaxInterest",
           "ElectronicBankingTransfer", "DirectDebit", "CardAtmDeposit">>

KindSet == {Kinds[n] : n \in 1..Len(Kinds)}

\* <kind>.text_identifiers
text_identifiers(kind) ==
    CASE kind = "IncomingPayment" ->
            [cs |-> <<"Prichozi uhrada", "Zahranicni prichozi uhrada">>,
             csob |-> <<"Prichozi uhrada">>]
      [] kind = "OutgoingPayment" ->
            [csob |-> <<"Odchozi uhrada">>, cs |-> <<"Tuzemska odchozi uhrada">>]
      [] kind = "OutgoingPaymentPeriodic" ->
            [cs |-> <<"Trvaly prikaz">>, csob |-> <<"Trvaly prikaz">>]
      [] kind = "CardPaymentDebit" ->
            [csob |-> <<"Transakce platebni kartou">>, cs |-> <<"Platba kartou">>]
      [] kind = "CardPaymentIncoming" ->
            [csob |-> <<"Prichozi uhrada kartou">>, cs |-> <<"Vratka platby kartou">>]
      [] kind = "CardAtmCashOut" ->
            [cs |-> <<"Vyber hotovosti z bankomatu">>, csob |-> <<"PLACEHOLDER">>]
      [] kind = "CardAtmDeposit" ->
            [cs |-> <<"Vklad hotovosti pres bankomat">>, csob |-> <<"PLACEHOLDER">>]
      [] kind = "BankPayedService" ->
            [cs |-> <<"Ceny za sluzby">>, csob |-> <<"Poplatek-platebni karta">>]
      [] kind = "InterestPositive" ->
            [cs |-> <<"Kreditni urok">>, csob |-> <<"Zuctovani kladnych uroku">>]
      [] kind = "TaxInterest" ->
            [cs |-> <<"Dan z uroku">>, csob |-> <<"PLACEHOLDER">>]
      [] kind = "ElectronicBankingTransfer" ->
            [cs |-> <<"PLACEHOLDER">>, csob |-> <<"Bezhotovostni prevod EB">>]
      [] kind = "DirectDebit" ->
            [cs |-> <<"Inkaso">>, csob |-> <<"Inkaso">>]

\* the banks every text_identifiers has an entry for
MarkerBanks == {"cs", "csob"}

\* any(identifier in line for identifier in <kind>.text_identifiers.get(bank))
HasMarker(kind, bank, line) ==
    \E n \in 1..Len(text_identifiers(kind)[bank]) :
        Contains(line, text_identifiers(kind)[bank][n])

\* a new Transaction with the defaults of the dataclass fields
TxDefault ==
    [kind |-> "Transaction",
     statement_account |-> None,
     parent_statement |-> None,
     transaction_id |-> 0,
     year |-> None,
     account_from |-> None,
     amount |-> "0",
     date_booked |-> None,
     account_to |-> None,
     currency |-> "CZK",
     variable_symbol |-> None,
     constant_symbol |-> None,
     specific_symbol |-> None,
     all_transaction_lines_text |-> "",
     payment_date |-> None,
     card_identifier |-> None,
     vendor_text |-> None,
     card_owner |-> None,
     our_bank_atm |-> TRUE,
     cash_out_date |-> "",
     deposit_date |-> "",
     service_type |-> None]

\* CardPaymentDebit.get_card_owner
get_card_owner(card_identifier) ==
    IF card_identifier = Some("7148") THEN "Ondra, CS, VISA"
    ELSE IF card_identifier = Some("5567") THEN "Ondra, CSOB, MC"
    ELSE IF card_identifier = Some("1563") THEN "Ondra, CSOB, MC"
    ELSE IF card_identifier = Some("9448") THEN "Ondra, REVOLUT, MC"
    ELSE IF card_identifier = Some("0119") THEN "Maja, CS, VISA"
    ELSE "Unknown card"

\* the kinds whose __post_init__ sets card_owner
CardKinds == {"CardPaymentDebit", "CardPaymentIncoming", "CardAtmCashOut"}

\* outcomes of a create: a Transaction, no value (None), or an exception
Ok(tx) ==
    [st |-> "ok",
     tx |-> IF tx.kind \in CardKinds
            THEN [tx EXCEPT !.card_owner = Some(get_card_owner(tx.card_identifier))]
            ELSE tx]

NoValue == [st |-> "none", tx |-> TxDefault]

Raise == [st |-> "error", tx |-> TxDefault]

\* date = text_contains_date(lines[line_index]); if not date: the line before,
\* stripped, for csob followed by the year
DateBooked(bank, year, line_index, lines) ==
    LET date == text_contains_date(At(lines, line_index).v)
        prev == At(lines, line_index - 1)
    IN  IF date # None THEN [ok |-> TRUE, v |-> Val(date)]
        ELSE IF ~prev.ok THEN [ok |-> FALSE, v |-> ""]
        ELSE IF bank = "cs" THEN [ok |-> TRUE, v |-> Strip(prev.v)]
        ELSE IF year = None THEN [ok |-> FALSE, v |-> ""]
        ELSE [ok |-> TRUE, v |-> Strip(prev.v) \o Val(year)]

\* pdf_amount_to_float(get_amount_line(lines, line_index)[0].strip())
ScanAmount(lines, line_index) ==
    LET found == get_amount_line(lines, line_index)
    IN  IF found.line = None THEN [ok |-> FALSE, val |-> "0.0"]
        ELSE pdf_amount_to_float(Strip(Val(found.line)))

\* pdf_amount_to_float(lines[k].strip())
OffsetAmount(lines, k) ==
    IF At(lines, k).ok THEN pdf_amount_to_float(Strip(At(lines, k).v))
    ELSE [ok |-> FALSE, val |-> "0.0"]

\* pdf_amount_to_float(lines[line_index + idx - 2].strip()), idx from
\* get_account_nr_line
AmountBeforeAccount(lines, line_index, idx) ==
    IF idx = None THEN [ok |-> FALSE, val |-> "0.0"]
    ELSE OffsetAmount(lines, line_index + Val(idx) - 2)

\* int(lines[k].strip())
IntAt(lines, k) ==
    IF At(lines, k).ok THEN ParseInt(Strip(At(lines, k).v))
    ELSE [ok |-> FALSE, val |-> "0.0"]

(***************************************************************************)
(* src/transactions.py: the create operations                              *)
(***************************************************************************)
IncomingPayment_create(bank, year, statement_account, account_to, line_index, lines) ==
    IF bank = "cs" THEN
        LET date == DateBooked(bank, year, line_index, lines)
            account_from == At(lines, line_index + 1)
        IN  The({IF date.ok /\ account_from.ok /\ amount.ok
                 THEN Ok([TxDefault EXCEPT !.kind = "IncomingPayment",
                             !.statement_account = statement_account, !.year = year,
                             !.account_from = Some(Strip(account_from.v)),
                             !.amount = amount.val, !.date_booked = Some(date.v),
                             !.account_to = account_to])
                 ELSE Raise : amount \in {ScanAmount(lines, line_index)}})
    ELSE IF bank = "csob" THEN
        LET date == DateBooked(bank, year, line_index, lines)
            account == get_account_nr_line(lines, line_index)
        IN  The({IF date.ok /\ amount.ok
                 THEN Ok([TxDefault EXCEPT !.kind = "IncomingPayment",
                             !.statement_account = statement_account, !.year = year,
                             !.account_from = account.line,
                             !.amount = amount.val, !.date_booked = Some(date.v),
                             !.account_to = account_to])
                 ELSE Raise : amount \in {AmountBeforeAccount(lines, line_index, account.idx)}})
    ELSE NoValue

OutgoingPayment_create(bank, year, statement_account, account_from, line_index, lines) ==
    IF bank = "cs" THEN
        LET date == DateBooked(bank, year, line_index, lines)
            next == At(lines, line_index + 1)
            offset == IF next.ok /\ Contains(next.v, "okamzita") THEN 1 ELSE 0
            account_to == At(lines, line_index + 1 + offset)
        IN  The({IF date.ok /\ next.ok /\ account_to.ok /\ amount.ok
                 THEN Ok([TxDefault EXCEPT !.kind = "OutgoingPayment",
                             !.statement_account = statement_account, !.year = year,
                             !.account_from = account_from,
                             !.amount = amount.val, !.date_booked = Some(date.v),
                             !.account_to = Some(Strip(account_to.v))])
                 ELSE Raise : amount \in {ScanAmount(lines, line_index)}})
    ELSE IF bank = "csob" THEN
        LET date == DateBooked(bank, year, line_index, lines)
            account == get_account_nr_line(lines, line_index)
        IN  The({IF date.ok /\ amount.ok
                 THEN Ok([TxDefault EXCEPT !.kind = "OutgoingPayment",
                             !.statement_account = statement_account, !.year = year,
                             !.account_from = account_from,
                             !.amount = amount.val, !.date_booked = Some(date.v),
                             !.account_to = account.line])
                 ELSE Raise : amount \in {AmountBeforeAccount(lines, line_index, account.idx)}})
    ELSE NoValue

OutgoingPaymentPeriodic_create(bank, year, statement_account, account_from, line_index, lines) ==
    IF bank = "cs" THEN
        LET date == DateBooked(bank, year, line_index, lines)
            account == get_account_nr_line(lines, line_index)
        IN  The({IF date.ok /\ amount.ok
                 THEN Ok([TxDefault EXCEPT !.kind = "OutgoingPaymentPeriodic",
                             !.statement_account = statement_account, !.year = year,
                             !.account_from = account_from,
                             !.amount = amount.val, !.date_booked = Some(date.v),
                             !.account_to = account.line])
                 ELSE Raise : amount \in {ScanAmount(lines, line_index)}})
    ELSE IF bank = "csob" THEN
        LET date == DateBooked(bank, year, line_index, lines)
            account == get_account_nr_line(lines, line_index)
        IN  The({IF date.ok /\ amount.ok
                 THEN Ok([TxDefault EXCEPT !.kind = "OutgoingPaymentPeriodic",
                             !.statement_account = statement_account, !.year = year,
                             !.account_from = account_from,
                             !.amount = amount.val, !.date_booked = Some(date.v),
                             !.account_to = account.line])
                 ELSE Raise : amount \in {AmountBeforeAccount(lines, line_index, account.idx)}})
    ELSE NoValue

\* the card fields of the cs layouts: the card line is "<card> ... d.tran.<date>"
CsCardIdentifier(line) == Replace(SplitFirst(Strip(line)), "X", "")

CsCardDate(line) == Replace(SplitLast(Strip(line)), "d.tran.", "")

CardPaymentDebit_create(bank, year, statement_account, account_from, line_index, lines) ==
    IF bank = "cs" THEN
        LET date == DateBooked(bank, year, line_index, lines)
            variable_symbol == IntAt(lines, line_index + 1)
            constant_symbol == IntAt(lines, line_index + 3)
            specific_symbol == IntAt(lines, line_index + 4)
            card == At(lines, line_index + 5)
            vendor_text == At(lines, line_index + 6)
        IN  The({IF /\ date.ok /\ variable_symbol.ok /\ amount.ok /\ constant_symbol.ok
                    /\ specific_symbol.ok /\ card.ok /\ vendor_text.ok
                 THEN Ok([TxDefault EXCEPT !.kind = "CardPaymentDebit",
                             !.statement_account = statement_account, !.year = year,
                             !.account_from = account_from,
                             !.amount = amount.val, !.date_booked = Some(date.v),
                             !.payment_date = Some(CsCardDate(card.v)),
                             !.variable_symbol = Some(variable_symbol.val),
                             !.constant_symbol = Some(constant_symbol.val),
                             !.specific_symbol = Some(specific_symbol.val),
                             !.card_identifier = Some(CsCardIdentifier(card.v)),
                             !.vendor_text = Some(Strip(vendor_text.v))])
                 ELSE Raise : amount \in {ScanAmount(lines, line_index)}})
    ELSE IF bank = "csob" THEN
        LET date == DateBooked(bank, year, line_index, lines)
            variable_symbol == IntAt(lines, line_index + 4)
            constant_symbol == IntAt(lines, line_index + 5)
            specific_symbol == IntAt(lines, line_index + 6)
            card == At(lines, line_index + 6)
            payment == At(lines, line_index + 8)
            vendor1 == At(lines, line_index + 7)
            vendor2 == At(lines, line_index + 9)
        IN  The({IF /\ date.ok /\ amount.ok /\ variable_symbol.ok /\ constant_symbol.ok
                    /\ specific_symbol.ok /\ card.ok /\ payment.ok /\ vendor1.ok /\ vendor2.ok
                 THEN Ok([TxDefault EXCEPT !.kind = "CardPaymentDebit",
                             !.statement_account = statement_account, !.year = year,
                             !.account_from = account_from,
                             !.amount = amount.val, !.date_booked = Some(date.v),
                             !.payment_date = Some(SplitLast(Strip(payment.v))),
                             !.variable_symbol = Some(variable_symbol.val),
                             !.constant_symbol = Some(constant_symbol.val),
                             !.specific_symbol = Some(specific_symbol.val),
                             !.card_identifier = Some(Last4(Strip(card.v))),
                             !.vendor_text = Some(Strip(vendor1.v) \o Strip(vendor2.v))])
                 ELSE Raise : amount \in {ScanAmount(lines, line_index)}})
    ELSE NoValue

\* the kind of the object that CardPaymentIncoming.create builds for cs
CardPaymentIncoming_cs_class == "CardPaymentDebit"

CardPaymentIncoming_create(bank, year, statement_account, account_to, line_index, lines) ==
    IF bank = "cs" THEN
        LET date == DateBooked(bank, year, line_index, lines)
            variable_symbol == IntAt(lines, line_index + 1)
            constant_symbol == IntAt(lines, line_index + 4)
            specific_symbol == IntAt(lines, line_index + 5)
            card == At(lines, line_index + 6)
            vendor_text == At(lines, line_index + 7)
        IN  The({IF /\ date.ok /\ variable_symbol.ok /\ amount.ok /\ constant_symbol.ok
                    /\ specific_symbol.ok /\ card.ok /\ vendor_text.ok
                 THEN Ok([TxDefault EXCEPT !.kind = CardPaymentIncoming_cs_class,
                             !.statement_account = statement_account, !.year = year,
                             !.amount = amount.val, !.date_booked = Some(date.v),
                             !.payment_date = Some(CsCardDate(card.v)),
                             !.variable_symbol = Some(variable_symbol.val),
                             !.constant_symbol = Some(constant_symbol.val),
                             !.specific_symbol = Some(specific_symbol.val),
                             !.card_identifier = Some(CsCardIdentifier(card.v)),
                             !.vendor_text = Some(Strip(vendor_text.v))])
                 ELSE Raise : amount \in {ScanAmount(lines, line_index)}})
    ELSE IF bank = "csob" THEN
        LET date == DateBooked(bank, year, line_index, lines)
            variable_symbol == IntAt(lines, line_index + 4)
            constant_symbol == IntAt(lines, line_index + 5)
            specific_symbol == IntAt(lines, line_index + 6)
            card == At(lines, line_index + 6)
            payment == At(lines, line_index + 8)
            vendor1 == At(lines, line_index + 7)
            vendor2 == At(lines, line_index + 9)
        IN  The({IF /\ date.ok /\ amount.ok /\ variable_symbol.ok /\ constant_symbol.ok
                    /\ specific_symbol.ok /\ card.ok /\ payment.ok /\ vendor1.ok /\ vendor2.ok
                 THEN Ok([TxDefault EXCEPT !.kind = "CardPaymentIncoming",
                             !.statement_account = statement_account, !.year = year,
                             !.account_to = account_to,
                             !.amount = amount.val, !.date_booked = Some(date.v),
                             !.payment_date = Some(SplitLast(Strip(payment.v))),
                             !.variable_symbol = Some(variable_symbol.val),
                             !.constant_symbol = Some(constant_symbol.val),
                             !.specific_symbol = Some(specific_symbol.val),
                             !.card_identifier = Some(Last4(Strip(card.v))),
                             !.vendor_text = Some(Strip(vendor1.v) \o Strip(vendor2.v))])
                 ELSE Raise : amount \in {OffsetAmount(lines, line_index + 2)}})
    ELSE NoValue

\* CardAtmCashOut.is_our_bank_atm, the line after the marker given
is_our_bank_atm(next_line) == ~Contains(next_line, "jine banky v CR")

CardAtmCashOut_create(bank, year, statement_account, account_from, line_index, lines) ==
    IF bank = "cs" THEN
        LET date == DateBooked(bank, year, line_index, lines)
            next == At(lines, line_index + 1)
            own_bank_atm == IF next.ok THEN is_our_bank_atm(next.v) ELSE TRUE
            offset == IF own_bank_atm THEN 0 ELSE 1
            variable_symbol == IntAt(lines, line_index + 1 + offset)
            constant_symbol == IntAt(lines, line_index + 3 + offset)
            specific_symbol == IntAt(lines, line_index + 4 + offset)
            card == At(lines, line_index + 5 + offset)
            vendor_text == At(lines, line_index + 6 + offset)
        IN  The({IF /\ date.ok /\ next.ok /\ variable_symbol.ok /\ amount.ok
                    /\ constant_symbol.ok /\ specific_symbol.ok /\ card.ok /\ vendor_text.ok
                 THEN Ok([TxDefault EXCEPT !.kind = "CardAtmCashOut",
                             !.statement_account = statement_account, !.year = year,
                             !.account_from = account_from,
                             !.amount = amount.val, !.date_booked = Some(date.v),
                             !.variable_symbol = Some(variable_symbol.val),
                             !.constant_symbol = Some(constant_symbol.val),
                             !.specific_symbol = Some(specific_symbol.val),
                             !.card_identifier = Some(CsCardIdentifier(card.v)),
                             !.vendor_text = Some(Strip(vendor_text.v)),
                             !.our_bank_atm = own_bank_atm,
                             !.cash_out_date = CsCardDate(card.v)])
                 ELSE Raise : amount \in {ScanAmount(lines, line_index)}})
    ELSE NoValue

CardAtmDeposit_create(bank, year, statement_account, account_from, line_index, lines) ==
    IF bank = "cs" THEN
        LET date == DateBooked(bank, year, line_index, lines)
            variable_symbol == IntAt(lines, line_index + 1)
            constant_symbol == IntAt(lines, line_index + 3)
        IN  The({IF date.ok /\ variable_symbol.ok /\ amount.ok /\ constant_symbol.ok
                 THEN Ok([TxDefault EXCEPT !.kind = "CardAtmDeposit",
                             !.statement_account = statement_account, !.year = year,
                             !.account_from = account_from,
                             !.account_to = statement_account,
                             !.amount = amount.val, !.date_booked = Some(date.v),
                             !.variable_symbol = Some(variable_symbol.val),
                             !.constant_symbol = Some(constant_symbol.val),
                             !.deposit_date = date.v])
                 ELSE Raise : amount \in {ScanAmount(lines, line_index)}})
    ELSE NoValue

\* BankPayedService.get_cs_bank_service_type: [ok, v]; the keys are tried in
\* the order of the dictionary, each reads the line after the marker, and a
\* key with subtypes reads the second line after it
get_cs_bank_service_type(line_index, lines) ==
    LET l1 == At(lines, line_index + 1)
        l2 == At(lines, line_index + 2)
    IN  IF ~l1.ok THEN [ok |-> FALSE, v |-> ""]
        ELSE IF Contains(l1.v, "Cena za vyber hotovosti z bankomatu")
        THEN IF ~l2.ok THEN [ok |-> FALSE, v |-> ""]
             ELSE IF Contains(l2.v, "jine banky v CR")
             THEN [ok |-> TRUE, v |-> "Cena za vyber hotovosti z bankomatu - jine banky v CR"]
             ELSE [ok |-> TRUE, v |-> "Cena za vyber hotovosti z bankomatu"]
        ELSE IF Contains(l1.v, "Cena za vedeni uctu")
        THEN [ok |-> TRUE, v |-> "Cena za vedeni uctu"]
        ELSE IF Contains(l1.v, "Poplatek")
        THEN IF ~l2.ok THEN [ok |-> FALSE, v |-> ""]
             ELSE IF Contains(l2.v, "platebni karta")
             THEN [ok |-> TRUE, v |-> "Poplatek - platebni karta"]
             ELSE [ok |-> TRUE, v |-> "Poplatek"]
        ELSE [ok |-> TRUE, v |-> ""]

\* BankPayedService.get_csob_bank_service_type, the marker line given
get_csob_bank_service_type(line) ==
    IF Contains(line, "Poplatek")
    THEN IF Contains(line, "platebni karta")
         THEN "\nPoplatek - platebni karta\n"
         ELSE "\nPoplatek\n"
    ELSE "\n"

BankPayedService_create(bank, year, statement_account, account_from, line_index, lines) ==
    IF bank = "cs" THEN
        LET date == DateBooked(bank, year, line_index, lines)
            service_type == get_cs_bank_service_type(line_index, lines)
        IN  The({IF date.ok /\ amount.ok /\ service_type.ok
                 THEN Ok([TxDefault EXCEPT !.kind = "BankPayedService",
                             !.statement_account = statement_account, !.year = year,
                             !.account_from = account_from,
                             !.amount = amount.val, !.date_booked = Some(date.v),
                             !.service_type = Some(service_type.v)])
                 ELSE Raise : amount \in {ScanAmount(lines, line_index)}})
    ELSE IF bank = "csob" THEN
        LET date == DateBooked(bank, year, line_index, lines)
        IN  The({IF date.ok /\ amount.ok
                 THEN Ok([TxDefault EXCEPT !.kind = "BankPayedService",
                             !.statement_account = statement_account, !.year = year,
                             !.account_from = account_from,
                             !.amount = amount.val, !.date_booked = Some(date.v),
                             !.service_type =
                                 Some(get_csob_bank_service_type(At(lines, line_index).v))])
                 ELSE Raise : amount \in {ScanAmount(lines, line_index)}})
    ELSE NoValue

InterestPositive_create(bank, year, statement_account, account_from, line_index, lines) ==
    IF bank = "cs" THEN
        LET date == DateBooked(bank, year, line_index, lines)
        IN  The({IF date.ok /\ amount.ok
                 THEN Ok([TxDefault EXCEPT !.kind = "InterestPositive",
                             !.statement_account = statement_account, !.year = year,
                             !.account_from = account_from,
                             !.amount = amount.val, !.date_booked = Some(date.v),
                             !.account_to = account_from])
                 ELSE Raise : amount \in {ScanAmount(lines, line_index)}})
    ELSE IF bank = "csob" THEN
        LET date == DateBooked(bank, year, line_index, lines)
        IN  The({IF date.ok /\ amount.ok
                 THEN Ok([TxDefault EXCEPT !.kind = "InterestPositive",
                             !.statement_account = statement_account, !.year = year,
                             !.account_from = account_from,
                             !.amount = amount.val, !.date_booked = Some(date.v),
                             !.account_to = account_from])
                 ELSE Raise : amount \in {OffsetAmount(lines, line_index + 2)}})
    ELSE NoValue

TaxInterest_create(bank, year, statement_account, account_from, line_index, lines) ==
    IF bank = "cs" THEN
        LET date == DateBooked(bank, year, line_index, lines)
        IN  The({IF date.ok /\ amount.ok
                 THEN Ok([TxDefault EXCEPT !.kind = "TaxInterest",
                             !.statement_account = statement_account, !.year = year,
                             !.account_from = account_from,
                             !.amount = amount.val, !.date_booked = Some(date.v)])
                 ELSE Raise : amount \in {ScanAmount(lines, line_index)}})
    ELSE NoValue

ElectronicBankingTransfer_create(bank, year, statement_account, line_index, lines) ==
    IF bank = "cs" THEN NoValue
    ELSE IF bank = "csob" THEN
        LET date == DateBooked(bank, year, line_index, lines)
            counter_party == get_account_nr_line(lines, line_index)
        IN  The({IF date.ok /\ amount.ok
                 THEN Ok([TxDefault EXCEPT !.kind = "ElectronicBankingTransfer",
                             !.statement_account = statement_account, !.year = year,
                             !.account_from = IF FloatLess(amount.val, "0") THEN statement_account
                                              ELSE counter_party.line,
                             !.amount = amount.val, !.date_booked = Some(date.v),
                             !.account_to = IF FloatLess(amount.val, "0") THEN counter_party.line
                                            ELSE statement_account])
                 ELSE Raise : amount \in {AmountBeforeAccount(lines, line_index, counter_party.idx)}})
    ELSE NoValue

DirectDebit_create(bank, year, statement_account, account_from, line_index, lines) ==
    IF bank = "cs" THEN
        LET date == DateBooked(bank, year, line_index, lines)
            account == get_account_nr_line(lines, line_index)
        IN  The({IF date.ok /\ amount.ok
                 THEN Ok([TxDefault EXCEPT !.kind = "DirectDebit",
                             !.statement_account = statement_account, !.year = year,
                             !.account_from = account_from,
                             !.amount = amount.val, !.date_booked = Some(date.v),
                             !.account_to = account.line])
                 ELSE Raise : amount \in {ScanAmount(lines, line_index)}})
    ELSE IF bank = "csob" THEN
        LET date == DateBooked(bank, year, line_index, lines)
            account == get_account_nr_line(lines, line_index)
        IN  The({IF date.ok /\ amount.ok
                 THEN Ok([TxDefault EXCEPT !.kind = "DirectDebit",
                             !.statement_account = statement_account, !.year = year,
                             !.account_from = account_from,
                             !.amount = amount.val, !.date_booked = Some(date.v),
                             !.account_to = account.line])
                 ELSE Raise : amount \in {AmountBeforeAccount(lines, line_index, account.idx)}})
    ELSE NoValue

\* <kind>.create as get_transactions_pdf calls it: the statement's account
\* number is passed as account_to or account_from
Create(kind, bank, year, account_number, line_index, lines) ==
    CASE kind = "CardPaymentIncoming" ->
            CardPaymentIncoming_create(bank, year, account_number, account_number, line_index, lines)
      [] kind = "IncomingPayment" ->
            IncomingPayment_create(bank, year, account_number, account_number, line_index, lines)
      [] kind = "OutgoingPayment" ->
            OutgoingPayment_create(bank, year, account_number, account_number, line_index, lines)
      [] kind = "CardPaymentDebit" ->
            CardPaymentDebit_create(bank, year, account_number, account_number, line_index, lines)
      [] kind = "CardAtmCashOut" ->
            CardAtmCashOut_create(bank, year, account_number, account_number, line_index, lines)
      [] kind = "BankPayedService" ->
            BankPayedService_create(bank, year, account_number, account_number, line_index, lines)
      [] kind = "OutgoingPaymentPeriodic" ->
            OutgoingPaymentPeriodic_create(bank, year, account_number, account_number, line_index, lines)
      [] kind = "InterestPositive" ->
            InterestPositive_create(bank, year, account_number, account_number, line_index, lines)
      [] kind = "TaxInterest" ->
            TaxInterest_create(bank, year, account_number, account_number, line_index, lines)
      [] kind = "ElectronicBankingTransfer" ->
            ElectronicBankingTransfer_create(bank, year, account_number, line_index, lines)
      [] kind = "DirectDebit" ->
            DirectDebit_create(bank, year, account_number, account_number, line_index, lines)
      [] kind = "CardAtmDeposit" ->
            CardAtmDeposit_create(bank, year, account_number, account_number, line_index, lines)

\* the Python indices of lines that <kind>.create addresses for a marker at
\* line_index: the line before the marker when the marker line holds no
\* date, and the lines at the offsets of the layout of the bank
ReadPositions(kind, bank, line_index, lines) ==
    LET i == line_index
        fallback == IF text_contains_date(At(lines, i).v) = None THEN {i - 1} ELSE {}
        next == At(lines, i + 1)
        account == get_account_nr_line(lines, i)
        before_account == IF account.idx = None THEN {} ELSE {i + Val(account.idx) - 2}
    IN  IF bank = "cs" THEN
            CASE kind = "IncomingPayment" -> fallback \cup {i + 1}
              [] kind = "OutgoingPayment" ->
                    fallback \cup {i + 1}
                    \cup (IF next.ok /\ Contains(next.v, "okamzita") THEN {i + 2} ELSE {})
              [] kind \in {"CardPaymentDebit"} ->
                    fallback \cup {i + 1, i + 3, i + 4, i + 5, i + 6}
              [] kind = "CardPaymentIncoming" ->
                    fallback \cup {i + 1, i + 4, i + 5, i + 6, i + 7}
              [] kind = "CardAtmCashOut" ->
                    LET o == IF next.ok /\ ~is_our_bank_atm(next.v) THEN 1 ELSE 0
                    IN  fallback \cup {i + 1, i + 1 + o, i + 3 + o, i + 4 + o, i + 5 + o, i + 6 + o}
              [] kind = "CardAtmDeposit" -> fallback \cup {i + 1, i + 3}
              [] kind = "BankPayedService" ->
                    fallback \cup {i + 1}
                    \cup (IF next.ok /\ (\/ Contains(next.v, "Cena za vyber hotovosti z bankomatu")
                                         \/ (/\ ~Contains(next.v, "Cena za vedeni uctu")
                                             /\ Contains(next.v, "Poplatek")))
                          THEN {i + 2} ELSE {})
              [] kind = "ElectronicBankingTransfer" -> {}
              [] OTHER -> fallback
        ELSE IF bank = "csob" THEN
            CASE kind \in {"IncomingPayment", "OutgoingPayment", "OutgoingPaymentPeriodic",
                           "ElectronicBankingTransfer", "DirectDebit"} ->
                    fallback \cup before_account
              [] kind = "CardPaymentDebit" ->
                    fallback \cup {i + 4, i + 5, i + 6, i + 7, i + 8, i + 9}
              [] kind = "CardPaymentIncoming" ->
                    fallback \cup {i + 2, i + 4, i + 5, i + 6, i + 7, i + 8, i + 9}
              [] kind = "InterestPositive" -> fallback \cup {i + 2}
              [] kind = "BankPayedService" -> fallback
              [] OTHER -> {}
        ELSE {}

(***************************************************************************)
(* src/constants.py                                                        *)
(***************************************************************************)
\* the notice at the foot of a statement; a no-break space follows its "V"
RecheckNotice ==
    "Prosime Vas o vcasne prekontrolovani uvedenych udaju. V~pripade nesouhlasu kontaktujte prosim svoje obchodni misto nebo volejte na telefon"

TRANSACTION_END_SECTION ==
    {"Konecny zustatek:",
     "Pokracovani na dalsi strane",
     "Vypis z uctu",
     "Datum",
     "Strana:",
     RecheckNotice,
     "Vazena klientko, vazeny kliente,"}

(***************************************************************************)
(* src/account_statement.py: the header fields of a PDF statement          *)
(***************************************************************************)
\* the positions <<page, index>> (page from 1, index from 0) of the lines of
\* pages, and their reading order
Positions(pages) ==
    UNION {{<<p, i>> : i \in 0..(Len(pages[p]) - 1)} : p \in 1..Len(pages)}

Before(a, b) == a[1] < b[1] \/ (a[1] = b[1] /\ a[2] <= b[2])

First(S) == CHOOSE a \in S : \A b \in S : Before(a, b)

LineAt(pages, pos) == pages[pos[1]][pos[2] + 1]

\* a new StatementAccount with the defaults of the dataclass fields
StatementDefault ==
    [file_path |-> "",
     bank_name |-> None,
     account_number |-> None,
     year |-> None,
     start_balance |-> None,
     end_balance |-> None,
     pages_content_pdf |-> <<>>,
     csv_content |-> <<>>,
     all_transactions |-> <<>>]

\* the bank a line names: the keys of bank_names in their order
BankOfLine(line) ==
    IF Contains(line, "Ceskoslovenska obchodni banka, a. s.,") THEN Some("csob")
    ELSE IF Contains(line, "Ceska sporitelna, a.s.,") THEN Some("cs")
    ELSE IF Contains(line, "Plus ucet Ceske sporitelny") THEN Some("cs")
    ELSE IF Contains(line, "Revolut") THEN Some("revolut")
    ELSE None

\* StatementAccount.get_bank_name_pdf: the value of bank_name afterwards
get_bank_name_pdf(pages) ==
    LET hits == {pos \in Positions(pages) : BankOfLine(LineAt(pages, pos)) # None}
    IN  IF hits = {} THEN None ELSE BankOfLine(LineAt(pages, First(hits)))

\* re.match(r"^LT\d*$", text)
IsRevolutAccount(text) ==
    /\ Len(text) >= 2
    /\ SubSeq(text, 1, 2) = "LT"
    /\ \A i \in 3..Len(text) : Char(text, i) \in Digits

\* StatementAccount.get_account_nr_pdf: [ok |-> no exception, v |-> the value
\* of account_number afterwards]
get_account_nr_pdf(pages) ==
    LET IsHit(pos) ==
            LET line == LineAt(pages, pos)
            IN  \/ Contains(line, "Cislo uctu/kod banky:")
                \/ Strip(line) = "Ucet:"
                \/ /\ IsRevolutAccount(Strip(line))
                   /\ ~At(pages[pos[1]], pos[2] + 1).ok
                      \/ Contains(At(pages[pos[1]], pos[2] + 1).v, "REVOLT21")
        hits == {pos \in Positions(pages) : IsHit(pos)}
        pos == First(hits)
        line == LineAt(pages, pos)
        next == At(pages[pos[1]], pos[2] + 1)
    IN  IF hits = {} THEN [ok |-> TRUE, v |-> None]
        ELSE IF Contains(line, "Cislo uctu/kod banky:")
        THEN [ok |-> TRUE, v |-> Some(Strip(Replace(line, "Cislo uctu/kod banky:", "")))]
        ELSE IF Strip(line) = "Ucet:"
        THEN IF next.ok THEN [ok |-> TRUE, v |-> Some(Strip(next.v))]
             ELSE [ok |-> FALSE, v |-> None]
        ELSE IF next.ok THEN [ok |-> TRUE, v |-> Some(Strip(line))]
             ELSE [ok |-> FALSE, v |-> None]

\* float(amount_text.replace(" CZK", "").replace(",", "")) rounded to 2
RevolutAmount(amount_text) ==
    The({[ok |-> parsed.ok, val |-> Round2(parsed.val)] :
            parsed \in {ParseFloat(Replace(Replace(amount_text, " CZK", ""), ",", ""))}})

\* StatementAccount.get_account_start_balance_pdf: [ok, v]
get_account_start_balance_pdf(pages, bank_name) ==
    LET Celkem(pos) == {o \in 0..(Len(pages[pos[1]]) - 1 - pos[2]) :
                           Strip(pages[pos[1]][pos[2] + o + 1]) = "Celkem"}
        IsHit(pos) ==
            LET line == LineAt(pages, pos)
            IN  \/ Contains(line, "Pocatecni zustatek:") /\ bank_name \in {Some("csob"), Some("cs")}
                \/ /\ Contains(line, "Souhrn zustatku") /\ bank_name = Some("revolut")
                   /\ Celkem(pos) # {}
        hits == {pos \in Positions(pages) : IsHit(pos)}
        pos == First(hits)
    IN  IF hits = {} THEN [ok |-> TRUE, v |-> None]
        ELSE The({IF amount.ok THEN [ok |-> TRUE, v |-> Some(amount.val)]
                  ELSE [ok |-> FALSE, v |-> None] :
                    amount \in {IF bank_name = Some("revolut")
                                THEN IF At(pages[pos[1]], pos[2] + Least(Celkem(pos)) + 1).ok
                                     THEN RevolutAmount(
                                              At(pages[pos[1]],
                                                 pos[2] + Least(Celkem(pos)) + 1).v)
                                     ELSE [ok |-> FALSE, val |-> "0.0"]
                                ELSE IF At(pages[pos[1]], pos[2] + 1).ok
                                     THEN pdf_amount_to_float(At(pages[pos[1]], pos[2] + 1).v)
                                     ELSE [ok |-> FALSE, val |-> "0.0"]}})

\* the revolut branch of get_account_end_balance_pdf from page p on, last
\* being last_summary_section_index: [ok, v]
RECURSIVE RevolutEndBalance(_, _, _)
RevolutEndBalance(pages, p, last) ==
    IF p > Len(pages) THEN [ok |-> TRUE, v |-> None]
    ELSE LET page == pages[p]
             summary == {i \in 0..(Len(page) - 1) : Contains(page[i + 1], "Souhrn zustatku")}
             section == IF summary = {} THEN last
                        ELSE Some(CHOOSE i \in summary : \A j \in summary : i >= j)
             celkem == {k \in From(page, IF section = None THEN 0 ELSE Val(section)) :
                           Strip(page[k + 1]) = "Celkem"}
         IN  IF celkem = {} THEN RevolutEndBalance(pages, p + 1, section)
             ELSE The({IF section = None \/ ~amount.ok THEN [ok |-> FALSE, v |-> None]
                       ELSE [ok |-> TRUE, v |-> Some(amount.val)] :
                         amount \in {IF At(page, Least(celkem) + 4).ok
                                     THEN RevolutAmount(At(page, Least(celkem) + 4).v)
                                     ELSE [ok |-> FALSE, val |-> "0.0"]}})

\* StatementAccount.get_account_end_balance_pdf: [ok, v]
get_account_end_balance_pdf(pages, bank_name) ==
    LET hits == {pos \in Positions(pages) : Contains(LineAt(pages, pos), "Konecny zustatek:")}
        pos == First(hits)
    IN  IF bank_name = Some("revolut") THEN RevolutEndBalance(pages, 1, None)
        ELSE IF bank_name \notin {Some("csob"), Some("cs")} \/ hits = {}
        THEN [ok |-> TRUE, v |-> None]
        ELSE The({IF amount.ok THEN [ok |-> TRUE, v |-> Some(amount.val)]
                  ELSE [ok |-> FALSE, v |-> None] :
                    amount \in {IF At(pages[pos[1]], pos[2] + 1).ok
                                THEN pdf_amount_to_float(At(pages[pos[1]], pos[2] + 1).v)
                                ELSE [ok |-> FALSE, val |-> "0.0"]}})

\* StatementAccount.get_statement_year_pdf: [ok, v]
get_statement_year_pdf(pages) ==
    LET IsHit(pos) ==
            LET line == LineAt(pages, pos)
            IN  \/ Contains(Strip(line), "Obdobi:")
                \/ Contains(line, "Transakce uctu od")
        hits == {pos \in Positions(pages) : IsHit(pos)}
        pos == First(hits)
        line == LineAt(pages, pos)
        next == At(pages[pos[1]], pos[2] + 1)
    IN  IF hits = {} THEN [ok |-> TRUE, v |-> None]
        ELSE IF Strip(line) = "Obdobi:"
        THEN IF next.ok THEN [ok |-> TRUE, v |-> Some(Last4(Strip(next.v)))]
             ELSE [ok |-> FALSE, v |-> None]
        ELSE [ok |-> TRUE, v |-> Some(Last4(Strip(line)))]

(***************************************************************************)
(* The statements of the model                                             *)
(***************************************************************************)
\* pages per PDF statement
MaxPages == 2

CsHeader ==
    <<"Ceska sporitelna, a.s.,",
      "Cislo uctu/kod banky: 1234567890/0800",
      "Obdobi: 01.01.2023 - 31.01.2023",
      "Pocatecni zustatek:", "1 000,00",
      "Konecny zustatek:", "1 500,00">>

CsobHeader ==
    <<"Ceskoslovenska obchodni banka, a. s.,",
      "Ucet:", "987654321/0300",
      "Obdobi:", "1. 1. 2023 - 31. 1. 2023",
      "Pocatecni zustatek:", "2 000,00",
      "Konecny zustatek:", "1 000,00">>

RevolutHeader == <<"Revolut Bank UAB", "Transakce uctu od 1. 1. 2023">>

\* page bodies in the layouts of Ceska sporitelna
CsPages ==
    {<<"04.01.2023 Vratka platby kartou", "123", "+50,00", "ref", "1178", "77",
       "XXXX7148 d.tran.03.01.2023", "ESHOP">>,
     <<"05.01.2023 Prichozi uhrada", "1111/0800", "+30 000,00", " ",
       "Pokracovani na dalsi strane", "after">>,
     <<"Zahranicni prichozi uhrada", "2222/0100", "+1~000,00", "  konec ">>,
     <<"06.01.2023", "Tuzemska odchozi uhrada", "okamzita", "3333/0300", "-250,50",
       "", "note">>,
     <<"Platba kartou", "123", "-120,00", "1178", "77",
       "XXXX7148 d.tran.03.01.2023", "ALBERT">>,
     <<"07.01.2023 Vyber hotovosti z bankomatu", "jine banky v CR", "5", "-2 000,00",
       "1179", "78", "XXXX0119 d.tran.06.01.2023", "ATM PRAHA">>,
     <<"08.01.2023 Ceny za sluzby", "Poplatek", "platebni karta", "-29,00">>,
     <<"09.01.2023 Trvaly prikaz", "4444/0800", "-1 500,00">>,
     <<"31.01.2023 Kreditni urok", "+0,12", "31.01.2023 Dan z uroku", "-0,02">>,
     <<"10.01.2023 Inkaso Trvaly prikaz", "5555/0100", "-300,00">>,
     <<"10.01.2023 Inkaso", "5555/0100", "-300,00">>,
     <<"11.01.2023 Vklad hotovosti pres bankomat", "9", "+5 000,00", "1180">>,
     <<"PLACEHOLDER">>,
     <<"text", "Vypis z uctu", "  more  ">>,
     <<"05.01.2023 Platba kartou", "123", "-120,00">>,
     <<"12.01.2023 Kreditni urok", "12-">>,
     <<"13.01.2023" \o VT, "Platba kartou", "1_000", "-120,00", FS \o "1178",
       "77" \o VT \o GS, VT \o "XXXX7148 d.tran.03.01.2023" \o RS, US \o "ALBERT">>}

\* page bodies in the layouts of CSOB
CsobPages ==
    {<<"12.01.", "Prichozi uhrada kartou", "x", "+75,00", "y", "11", "22", "33331563",
       "SHOP", "Misto: 11.01.2023", "CITY">>,
     <<"13.01.", "Prichozi uhrada", "+500,00", "note", "6666/0300", "Datum", "after">>,
     <<"14.01.", "Odchozi uhrada", "-700,00", "note", "7777/0100">>,
     <<"Transakce platebni kartou", "z", "-99,90", "w", "11", "22", "33335567",
       "VENDOR", "Misto: 14.01.2023", "TOWN">>,
     <<"16.01.", "Poplatek-platebni karta", "-15,00">>,
     <<"17.01.", "Trvaly prikaz", "-800,00", "n", "8888/0800">>,
     <<"31.01.", "Zuctovani kladnych uroku", "u", "+1,23">>,
     <<"18.01.", "Bezhotovostni prevod EB", "-40,00", "n", "9999/0300">>,
     <<"21.01.", "Bezhotovostni prevod EB", "+40,00", "", "9999/0300">>,
     <<"19.01.", "Inkaso", "-60,00", "n", "1212/0100">>,
     <<"Inkaso 20.01.2023", "1212/0100", "-5,00">>,
     <<"PLACEHOLDER">>,
     <<"text", "Strana:", "  more  ">>,
     <<"22.01.", "Odchozi uhrada", "-700,00">>}

\* page bodies of a statement of another or of no recognisable bank
OtherPages == {<<"text">>, <<"10.01.2023 Inkaso", "5555/0100", "-300,00">>}

\* the page bodies that follow a first page: a marker without a date on top
\* of the page, text that goes on from the page before, a transaction
CsLaterPages ==
    {<<"Zahranicni prichozi uhrada", "2222/0100", "+1~000,00", "  konec ">>,
     <<"Platba kartou", "123", "-120,00", "1178", "77",
       "XXXX7148 d.tran.03.01.2023", "ALBERT">>,
     <<"text", "Vypis z uctu", "  more  ">>,
     <<"10.01.2023 Inkaso", "5555/0100", "-300,00">>,
     <<"PLACEHOLDER">>,
     <<"12.01.2023 Kreditni urok", "12-">>}

CsobLaterPages ==
    {<<"Transakce platebni kartou", "z", "-99,90", "w", "11", "22", "33335567",
       "VENDOR", "Misto: 14.01.2023", "TOWN">>,
     <<"Inkaso 20.01.2023", "1212/0100", "-5,00">>,
     <<"text", "Strana:", "  more  ">>,
     <<"14.01.", "Odchozi uhrada", "-700,00", "note", "7777/0100">>,
     <<Replace(RecheckNotice, NBSP, " "), RecheckNotice, "after">>,
     <<"18.01.", "Bezhotovostni prevod EB", "-inf", "n", "9999/0300">>,
     <<"31.01.", "Zuctovani kladnych uroku", "u", "nan">>}

\* the sequences of 1..n elements, the first of firsts and the others of laters
RECURSIVE SeqsFrom(_, _, _)
SeqsFrom(firsts, laters, n) ==
    IF n = 0 THEN {}
    ELSE {<<x>> : x \in firsts} \cup
         {Append(q, x) : q \in SeqsFrom(firsts, laters, n - 1), x \in laters}

\* the page lists of the PDF statements: a header on top of the first page
WithHeader(header, bodies) == <<header \o bodies[1]>> \o Tail(bodies)

PdfFiles ==
    {[file_path |-> "vypis_cs_2301.pdf", pages |-> WithHeader(CsHeader, b)] :
        b \in SeqsFrom(CsPages, CsLaterPages, MaxPages)}
    \cup
    {[file_path |-> "vypis_csob_2301.pdf", pages |-> WithHeader(CsobHeader, b)] :
        b \in SeqsFrom(CsobPages, CsobLaterPages, MaxPages)}
    \cup
    {[file_path |-> "vypis_revolut_2301.pdf", pages |-> WithHeader(RevolutHeader, b)] :
        b \in SeqsFrom(OtherPages, OtherPages, 1)}
    \cup
    {[file_path |-> "vypis.pdf", pages |-> b] : b \in SeqsFrom(OtherPages, OtherPages, 1)}

(***************************************************************************)
(* State                                                                   *)
(***************************************************************************)
VARIABLES
    pc,        \* where the program is: "start", "pdf", "csv", "done", "crashed"
    cur,       \* the StatementAccount whose __post_init__ is running
    page,      \* get_transactions_pdf: the page of the line to process, from 1
    line,      \* its index in the page, from 0
    active,    \* is_transaction_lines_active
    heap,      \* the Transaction objects in the order of their creation
    txAll,     \* Transaction.all: indices into heap
    stmtAll,   \* StatementAccount.all
    nextId,    \* the next value of Transaction.generator_id
    invoked,   \* the kinds whose create the last processed line called
    last,      \* the position and the text of the last processed line
    checked,   \* validate_all_transactions_extracted: the statements gone through
    printed,   \* the warnings it has printed
    json_file, \* transactions.json: None while it does not exist, else its records
    csv_file,  \* transactions.csv: None while it does not exist, else its rows
    walk,      \* get_files_to_process: the directory, the suffixes, the result
    conversion, \* pdf_amount_to_float: the text and the result
    scan       \* get_amount_line: the lines, the index to search from, the result

vars == <<pc, cur, page, line, active, heap, txAll, stmtAll, nextId, invoked, last,
          checked, printed, json_file, csv_file, walk, conversion, scan>>

\* the arguments and the results of the functions that are called on their own
aside == <<walk, conversion, scan>>

\* the state of main() after the statements are loaded
tail == <<checked, printed, json_file, csv_file, aside>>

NoWalk == [filenames |-> <<>>, suffixes |-> <<>>, files |-> None]

NoAmount == [text |-> "", result |-> None]

NoScan == [lines |-> <<>>, from |-> 0, found |-> None]

NoLine == [page |-> 0, index |-> 0, text |-> ""]

Init ==
    /\ pc = "start"
    /\ cur = StatementDefault
    /\ page = 1
    /\ line = 0
    /\ active = FALSE
    /\ heap = <<>>
    /\ txAll = <<>>
    /\ stmtAll = <<>>
    /\ nextId = 1
    /\ invoked = <<>>
    /\ last = NoLine
    /\ checked = 0
    /\ printed = <<>>
    /\ json_file = None
    /\ csv_file = None
    /\ walk = NoWalk
    /\ conversion = NoAmount
    /\ scan = NoScan

(***************************************************************************)
(* src/account_statement.py: StatementAccount.__post_init__ on a PDF       *)
(***************************************************************************)
\* the position after pos in the reading order of pages, <<Len(pages) + 1, 0>>
\* when pos is the position of the last line
NextPosition(pages, pos) ==
    LET later == {q \in Positions(pages) : Before(pos, q) /\ q # pos}
    IN  IF later = {} THEN <<Len(pages) + 1, 0>> ELSE First(later)

FirstPosition(pages) ==
    IF Positions(pages) = {} THEN <<Len(pages) + 1, 0>> ELSE First(Positions(pages))

\* a chain that tests the markers in the opposite order
DispatchOrderReversed == [n \in 1..Len(Kinds) |-> Kinds[Len(Kinds) + 1 - n]]

\* the kinds in the order in which the if/elif chain of get_transactions_pdf
\* tests their markers
DispatchOrder == Kinds

\* the kinds whose branch of the chain the line takes: the first kind in the
\* order whose marker the line contains, if any
Dispatch(bank, text) ==
    LET hits == {n \in 1..Len(DispatchOrder) : HasMarker(DispatchOrder[n], bank, text)}
    IN  IF hits = {} THEN <<>> ELSE <<DispatchOrder[Least(hits)]>>

\* a generator that starts anew for every object
RegisteredFirst(tx) == [tx EXCEPT !.transaction_id = 1]

\* Transaction.__post_init__: the object gets the next id and is appended to
\* Transaction.all
Registered(tx) == [tx EXCEPT !.transaction_id = nextId]

\* initialize_from_pdf up to the call of get_transactions_pdf
StartPdf(file) ==
    /\ pc = "start"
    /\ EndsWith(Lower(file.file_path), ".pdf")
    /\ \E pages \in {file.pages} :
       \E bank_name \in {get_bank_name_pdf(pages)} :
       \E account_number \in {get_account_nr_pdf(pages)},
          start_balance \in {get_account_start_balance_pdf(pages, bank_name)},
          end_balance \in {get_account_end_balance_pdf(pages, bank_name)},
          year \in {get_statement_year_pdf(pages)} :
       \E raised \in {~(account_number.ok /\ start_balance.ok /\ end_balance.ok /\ year.ok)} :
          /\ cur' = [StatementDefault EXCEPT
                          !.file_path = file.file_path,
                          !.pages_content_pdf = pages,
                          !.bank_name = bank_name,
                          !.account_number = IF account_number.ok THEN account_number.v
                                             ELSE None,
                          !.start_balance = IF account_number.ok /\ start_balance.ok
                                            THEN start_balance.v ELSE None,
                          !.end_balance = IF /\ account_number.ok /\ start_balance.ok
                                             /\ end_balance.ok
                                          THEN end_balance.v ELSE None,
                          !.year = IF ~raised THEN year.v ELSE None]
          /\ pc' = IF raised THEN "crashed" ELSE "pdf"
          /\ page' = FirstPosition(pages)[1]
          /\ line' = FirstPosition(pages)[2]
    /\ active' = FALSE
    /\ invoked' = <<>>
    /\ last' = NoLine
    /\ UNCHANGED <<heap, txAll, stmtAll, nextId>>
    /\ UNCHANGED tail

\* a chain that tests the text of an active transaction before the sentinels
BranchAppendFirst(bank, text, act) ==
    IF Dispatch(bank, text) # <<>> THEN "create"
    ELSE IF act /\ text # "" THEN "append"
    ELSE IF text \in TRANSACTION_END_SECTION THEN "close"
    ELSE "skip"

\* the branch of the if/elif chain that a line takes, is_transaction_lines_active
\* being act
Branch(bank, text, act) ==
    IF Dispatch(bank, text) # <<>> THEN "create"
    ELSE IF text \in TRANSACTION_END_SECTION THEN "close"
    ELSE IF act /\ text # "" THEN "append"
    ELSE "skip"

\* an append that keeps the surrounding whitespace of the line
AppendLineUntrimmed(body, text) == body \o text \o "\n"

\* all_transaction_lines_text += f"{line.strip()}\n"
AppendLine(body, text) == body \o Strip(text) \o "\n"

\* a flag that every page starts without
CarriedActiveOfPage(index, flag) == flag /\ index # 0

\* is_transaction_lines_active at the head of the loop body for the line at
\* index: it is set before the loop over the pages and by the lines only
CarriedActive(index, flag) == flag

\* a body line that goes to the first transaction of the statement
AppendTargetFirst(all_transactions) == all_transactions[1]

\* self.all_transactions[-1]
AppendTarget(all_transactions) == all_transactions[Len(all_transactions)]

\* one iteration of the loops of get_transactions_pdf
ProcessLine ==
    LET lines == cur.pages_content_pdf[page]
        text == lines[line + 1]
        bank == IF cur.bank_name = None THEN "" ELSE Val(cur.bank_name)
        kinds == Dispatch(bank, text)
        branch == Branch(bank, text, CarriedActive(line, active))
        next == NextPosition(cur.pages_content_pdf, <<page, line>>)
        advance == /\ page' = next[1]
                   /\ line' = next[2]
                   /\ pc' = "pdf"
        stay == /\ UNCHANGED <<page, line>>
                /\ pc' = "crashed"
    IN  /\ pc = "pdf"
        /\ page <= Len(cur.pages_content_pdf)
        /\ last' = [page |-> page, index |-> line, text |-> text]
        /\ UNCHANGED <<stmtAll, tail>>
        /\ IF bank \notin MarkerBanks
           THEN \* text_identifiers.get(bank_name) is None: TypeError
                /\ stay
                /\ invoked' = <<>>
                /\ UNCHANGED <<cur, active, heap, txAll, nextId>>
           ELSE IF branch = "create"
           THEN /\ active' = TRUE
                /\ invoked' = kinds
                /\ \E made \in {Create(kinds[1], bank, cur.year, cur.account_number,
                                        line, lines)} :
                      IF made.st = "ok"
                      THEN /\ heap' = Append(heap, [Registered(made.tx) EXCEPT
                                                !.parent_statement = Some(cur.file_path)])
                           /\ txAll' = Append(txAll, Len(heap) + 1)
                           /\ nextId' = nextId + 1
                           /\ cur' = [cur EXCEPT !.all_transactions = Append(@, Len(heap) + 1)]
                           /\ advance
                      ELSE IF made.st = "none"
                      THEN \* None is appended, tx.parent_statement raises
                           /\ cur' = [cur EXCEPT !.all_transactions = Append(@, 0)]
                           /\ stay
                           /\ UNCHANGED <<heap, txAll, nextId>>
                      ELSE /\ stay
                           /\ UNCHANGED <<cur, heap, txAll, nextId>>
           ELSE IF branch = "close"
           THEN /\ active' = FALSE
                /\ invoked' = <<>>
                /\ advance
                /\ UNCHANGED <<cur, heap, txAll, nextId>>
           ELSE IF branch = "append"
           THEN /\ heap' = [heap EXCEPT
                               ![AppendTarget(cur.all_transactions)]
                                   .all_transaction_lines_text = AppendLine(@, text)]
                /\ invoked' = <<>>
                /\ advance
                /\ UNCHANGED <<cur, active, txAll, nextId>>
           ELSE /\ invoked' = <<>>
                /\ advance
                /\ UNCHANGED <<cur, active, heap, txAll, nextId>>

\* the end of __post_init__: StatementAccount.all.append(self)
FinishStatement ==
    /\ pc = "pdf"
    /\ page > Len(cur.pages_content_pdf)
    /\ stmtAll' = Append(stmtAll, cur)
    /\ pc' = "done"
    /\ UNCHANGED <<cur, page, line, active, heap, txAll, nextId, invoked, last, tail>>

LoadPdf == pc = "start" /\ \E file \in PdfFiles : StartPdf(file)

NextPdf == LoadPdf \/ ProcessLine \/ FinishStatement

SpecPdf == Init /\ [][NextPdf]_vars

(***************************************************************************)
(* src/helper_functions.py, src/account_statement.py: the Revolut CSV path *)
(***************************************************************************)
\* s.upper() on ASCII letters
UpperChar(c) ==
    IF \E k \in 1..26 : Char(LowerLetters, k) = c
    THEN Char(UpperLetters, CHOOSE k \in 1..26 : Char(LowerLetters, k) = c)
    ELSE c

RECURSIVE Upper(_)
Upper(s) ==
    IF Len(s) <= 1 THEN UpperChar(s)
    ELSE Upper(SubSeq(s, 1, Len(s) \div 2)) \o Upper(SubSeq(s, Len(s) \div 2 + 1, Len(s)))

\* the parts of s that the separators seps delimit, in their order; fewer
\* than Len(seps) + 1 parts when a separator is missing
RECURSIVE Fields(_, _)
Fields(s, seps) ==
    IF seps = <<>> THEN <<s>>
    ELSE LET at == {i \in 1..Len(s) : Char(s, i) = Head(seps)}
         IN  IF at = {} THEN <<>>
             ELSE <<SubSeq(s, 1, Least(at) - 1)>>
                  \o Fields(SubSeq(s, Least(at) + 1, Len(s)), Tail(seps))

\* the number of days of a month of the Gregorian calendar
DaysIn(month, year) ==
    IF month \in {4, 6, 9, 11} THEN 30
    ELSE IF month # 2 THEN 31
    ELSE IF year % 4 = 0 /\ (year % 100 # 0 \/ year % 400 = 0) THEN 29
    ELSE 28

\* "%02d" of a number below 100
Pad2(n) == Char("0123456789", (n \div 10) + 1) \o Char("0123456789", (n % 10) + 1)

\* the texts that strptime accepts for %d (one or two digits, or a space and
\* a digit from 1 to 9), for %m, and for %H, %M, %S below a limit
IsDayText(t) ==
    \/ IsDigit(t) /\ Len(t) <= 2 /\ DigitsValue(t) \in 1..31
    \/ Len(t) = 2 /\ Char(t, 1) = " " /\ IsDigit(Char(t, 2)) /\ Char(t, 2) # "0"

DayValue(t) == IF Char(t, 1) = " " THEN DigitsValue(Char(t, 2)) ELSE DigitsValue(t)

IsMonthText(t) == IsDigit(t) /\ Len(t) <= 2 /\ DigitsValue(t) \in 1..12

IsClockText(t, limit) == IsDigit(t) /\ Len(t) <= 2 /\ DigitsValue(t) < limit

\* the text "%d %H" of a date: the day, a run of whitespace, the hour.
\* Result <<day, hour>>, or <<>> when the text has another shape.
DayAndHour(t) ==
    LET lead == IF Len(t) > 0 /\ Char(t, 1) = " " THEN 1 ELSE 0
        gap == {i \in (lead + 1)..Len(t) : Char(t, i) \in Whitespace}
    IN  IF gap = {} \/ gap # Least(gap)..Greatest(gap) THEN <<>>
        ELSE <<SubSeq(t, 1, Least(gap) - 1), SubSeq(t, Greatest(gap) + 1, Len(t))>>

\* get_date_from_string: strptime with "%Y-%m-%d %H:%M:%S", then strftime with
\* "%d.%m.%Y", which writes the year without leading zeros.
\* Result [ok |-> no ValueError, v |-> the date text].
get_date_from_string(date_string) ==
    LET f == Fields(date_string, <<"-", "-", ":", ":">>)
        dh == IF Len(f) = 5 THEN DayAndHour(f[3]) ELSE <<>>
    IN  IF /\ Len(f) = 5
           /\ Len(dh) = 2
           /\ Len(f[1]) = 4
           /\ IsDigit(f[1])
           /\ DigitsValue(f[1]) >= 1
           /\ IsMonthText(f[2])
           /\ IsDayText(dh[1])
           /\ DayValue(dh[1]) <= DaysIn(DigitsValue(f[2]), DigitsValue(f[1]))
           /\ IsClockText(dh[2], 24)
           /\ IsClockText(f[4], 60)
           /\ IsClockText(f[5], 60)
        THEN [ok |-> TRUE,
              v |-> Pad2(DayValue(dh[1])) \o "." \o Pad2(DigitsValue(f[2])) \o "."
                    \o DigitsText(DigitsValue(f[1]))]
        ELSE [ok |-> FALSE, v |-> ""]

\* get_account_nr_csv: the account number for a currency code that the upper
\* case path contains.  The codes are tried in the iteration order of a set
\* of strings, so each code in the path is a possible outcome.
get_account_nr_csv(file_path) ==
    LET found == {c \in {"CZK", "USD", "EUR"} : Contains(Upper(file_path), c)}
    IN  IF found = {} THEN {""}
        ELSE {"LT443250037740989361" \o c : c \in found}

\* get_account_start_balance_csv: [ok |-> no ValueError, v |-> start_balance]
get_account_start_balance_csv(csv_content) ==
    IF csv_content = <<>> THEN [ok |-> TRUE, v |-> None]
    ELSE The({IF balance_after_1st_line.ok /\ amount_1st_line.ok
              THEN [ok |-> TRUE,
                    v |-> Some(FloatSub(balance_after_1st_line.val, amount_1st_line.val))]
              ELSE [ok |-> FALSE, v |-> None] :
                balance_after_1st_line \in {ParseFloat(csv_content[1]["Balance"])},
                amount_1st_line \in {ParseFloat(csv_content[1]["Amount"])}})

\* get_account_end_balance_csv: [ok |-> no ValueError, v |-> end_balance]
get_account_end_balance_csv(csv_content) ==
    IF csv_content = <<>> THEN [ok |-> TRUE, v |-> None]
    ELSE The({IF balance.ok THEN [ok |-> TRUE, v |-> Some(balance.val)]
              ELSE [ok |-> FALSE, v |-> None] :
                balance \in {ParseFloat(csv_content[Len(csv_content)]["Balance"])}})

\* os.path.splitext(path)[0]: the path up to the last dot of its last
\* component, when a character other than a dot comes before that dot in the
\* component; the whole path otherwise
BaseName(path) ==
    LET seps == {i \in 1..Len(path) : Char(path, i) = "/"}
        dots == {i \in 1..Len(path) : Char(path, i) = "."}
        sepIndex == IF seps = {} THEN 0 ELSE Greatest(seps)
        dotIndex == IF dots = {} THEN 0 ELSE Greatest(dots)
    IN  IF /\ dotIndex > sepIndex
           /\ \E i \in (sepIndex + 1)..(dotIndex - 1) : Char(path, i) # "."
        THEN SubSeq(path, 1, dotIndex - 1)
        ELSE path

\* get_statement_year_csv: "20" + base_name[-2:]
get_statement_year_csv(file_path) ==
    LET base_name == BaseName(file_path)
    IN  "20" \o SubSeq(base_name, Max(1, Len(base_name) - 1), Len(base_name))

\* StatementAccount.is_transaction_valid
is_transaction_valid(state) == Lower(state) = "completed"

\* a table in which a top-up is not an incoming payment and a fee of either
\* sign is a service
revolut_rules_other ==
    <<[kind |-> "OutgoingPayment", type |-> {"transfer", "exchange"}, negative |-> TRUE],
      [kind |-> "IncomingPayment", type |-> {"transfer", "exchange"}, negative |-> FALSE],
      [kind |-> "CardPaymentDebit", type |-> {"card_payment"}, negative |-> TRUE],
      [kind |-> "CardPaymentIncoming", type |-> {"card_payment"}, negative |-> FALSE],
      [kind |-> "BankPayedService", type |-> {"fee"}, negative |-> TRUE],
      [kind |-> "BankPayedService", type |-> {"fee"}, negative |-> FALSE],
      [kind |-> "CardAtmCashOut", type |-> {"atm"}, negative |-> TRUE]>>

\* revolut_rules of get_transactions_csv, in the order of the dict
revolut_rules ==
    <<[kind |-> "OutgoingPayment", type |-> {"transfer", "exchange"}, negative |-> TRUE],
      [kind |-> "IncomingPayment", type |-> {"transfer", "exchange", "topup"},
       negative |-> FALSE],
      [kind |-> "CardPaymentDebit", type |-> {"card_payment"}, negative |-> TRUE],
      [kind |-> "CardPaymentIncoming", type |-> {"card_payment"}, negative |-> FALSE],
      [kind |-> "BankPayedService", type |-> {"fee"}, negative |-> TRUE],
      [kind |-> "CardAtmCashOut", type |-> {"atm"}, negative |-> TRUE]>>

\* the head of the loop body of get_transactions_csv: the conversions that
\* run before the state of the row is looked at, in their order
ParseRow(row) ==
    The({[ok |-> started.ok /\ completed.ok /\ amount.ok /\ fee.ok,
          date_started |-> started.v,
          date_completed |-> completed.v,
          amount |-> amount.val,
          fee |-> fee.val] :
            started \in {IF row["Started Date"] = ""
                         THEN [ok |-> TRUE, v |-> "ERROR - MISSING DATE"]
                         ELSE get_date_from_string(row["Started Date"])},
            completed \in {IF row["Completed Date"] = ""
                           THEN [ok |-> TRUE, v |-> "ERROR - MISSING DATE"]
                           ELSE get_date_from_string(row["Completed Date"])},
            amount \in {ParseFloat(row["Amount"])},
            fee \in {ParseFloat(row["Fee"])}})

\* the constructor call of the branch of a rule
RuleTransaction(self, kind, row, parsed) ==
    LET common == [TxDefault EXCEPT
                       !.kind = kind,
                       !.statement_account = self.account_number,
                       !.parent_statement = Some(self.file_path),
                       !.year = self.year,
                       !.amount = parsed.amount,
                       !.date_booked = Some(parsed.date_completed),
                       !.currency = row["Currency"],
                       !.all_transaction_lines_text = row["Description"]]
    IN  Ok(CASE kind = "OutgoingPayment" ->
                    [common EXCEPT !.account_from = self.account_number]
             [] kind = "IncomingPayment" ->
                    [common EXCEPT !.account_to = self.account_number]
             [] kind = "CardPaymentDebit" ->
                    [common EXCEPT !.account_from = self.account_number,
                                   !.card_identifier = Some("9448"),
                                   !.payment_date = Some(parsed.date_started)]
             [] kind = "CardPaymentIncoming" ->
                    [common EXCEPT !.account_to = self.account_number]
             [] kind = "BankPayedService" ->
                    [common EXCEPT !.account_from = self.account_number,
                                   !.service_type = Some("")]
             [] kind = "CardAtmCashOut" ->
                    [common EXCEPT !.account_from = self.account_number]).tx

\* tx_fee of get_transactions_csv
FeeTransaction(self, row, parsed) ==
    [TxDefault EXCEPT
         !.kind = "BankPayedService",
         !.statement_account = self.account_number,
         !.parent_statement = Some(self.file_path),
         !.account_from = self.account_number,
         !.year = self.year,
         !.amount = FloatNeg(parsed.fee),
         !.date_booked = Some(parsed.date_completed),
         !.currency = row["Currency"],
         !.all_transaction_lines_text = row["Description"],
         !.service_type = Some("transaction fee")]

\* if tx_type.lower() in values.get("type"):
\*     if values.get("negative") == (amount < 0):
RuleApplies(rule, row, parsed) ==
    /\ Lower(row["Type"]) \in rule.type
    /\ rule.negative = FloatLess(parsed.amount, "0")

\* the loop over revolut_rules from rule n on: the Transactions a valid row
\* creates, in the order of their creation
RECURSIVE RowTransactions(_, _, _, _)
RowTransactions(self, row, parsed, n) ==
    IF n > Len(revolut_rules) THEN <<>>
    ELSE (IF RuleApplies(revolut_rules[n], row, parsed)
          THEN <<RuleTransaction(self, revolut_rules[n].kind, row, parsed)>>
               \o (IF FloatLess("0", parsed.fee) THEN <<FeeTransaction(self, row, parsed)>>
                   ELSE <<>>)
          ELSE <<>>)
         \o RowTransactions(self, row, parsed, n + 1)

\* the kinds of the rules that apply to a row, in the order of the rules
RECURSIVE RulesApplied(_, _, _)
RulesApplied(row, parsed, n) ==
    IF n > Len(revolut_rules) THEN <<>>
    ELSE (IF RuleApplies(revolut_rules[n], row, parsed)
          THEN <<revolut_rules[n].kind>> ELSE <<>>)
         \o RulesApplied(row, parsed, n + 1)

(***************************************************************************)
(* The CSV statements that are read                                        *)
(***************************************************************************)
\* the most rows of a CSV statement
MaxRows == 2

\* a row of csv.DictReader
Row(type, started, completed, amount, fee, state, balance) ==
    [k \in {"Type", "Started Date", "Completed Date", "Description", "Amount",
            "Fee", "Currency", "State", "Balance"} |->
        CASE k = "Type" -> type
          [] k = "Started Date" -> started
          [] k = "Completed Date" -> completed
          [] k = "Description" -> "To " \o type
          [] k = "Amount" -> amount
          [] k = "Fee" -> fee
          [] k = "Currency" -> "CZK"
          [] k = "State" -> state
          [] k = "Balance" -> balance]

RevolutTypes == {"TRANSFER", "EXCHANGE", "Topup", "CARD_PAYMENT", "FEE", "ATM"}

Started == "2023-01-05 10:00:00"

Completed == "2023-01-06 11:30:00"

\* booked rows of every type with an amount of either sign or of zero, of a
\* type without a rule, with a fee, without a date; rows in another state;
\* rows with a field that does not convert; dates with a run of whitespace
\* before the time, a day written with a space, a year below 1000; an amount,
\* a fee and a balance that float() reads as nan or as an infinity; an
\* amount and a fee below a hundredth, an amount of more digits than a double
\* holds
CsvRows ==
    ({Row(t, Started, Completed, a, "0.00", "COMPLETED", "1000.00") :
        t \in RevolutTypes, a \in {"-120.00", "50.00"}}
     \ {Row("TRANSFER", Started, Completed, "-120.00", "0.00", "COMPLETED", "1000.00")})
    \cup
    {Row("TRANSFER", Started, Completed, "0.00", "0.00", "COMPLETED", "1000.00"),
     Row("FEE", Started, Completed, "0.00", "0.00", "COMPLETED", "1000.00"),
     Row("CARD_REFUND", Started, Completed, "-120.00", "0.00", "COMPLETED", "1000.00"),
     Row("CARD_PAYMENT", Started, Completed, "-120.00", "1.50", "COMPLETED", "1000.00"),
     Row("Topup", Started, Completed, "50.00", "1.50", "COMPLETED", "1000.00"),
     Row("TRANSFER", Started, "2023-1-6 9:05:00", "-120.00", "-1.50", "Completed", "1000.00"),
     Row("ATM", Started, "", "-120.00", "0.00", "COMPLETED", "1000.00"),
     Row("CARD_PAYMENT", Started, "", "-120.00", "1.50", "REVERTED", "1000.00"),
     Row("CARD_PAYMENT", Started, "", "", "0.00", "REVERTED", "1000.00"),
     Row("CARD_PAYMENT", "05.01.2023", "", "-120.00", "0.00", "REVERTED", "1000.00"),
     Row("TRANSFER", "2023-02-30 10:00:00", Completed, "50.00", "0.00", "COMPLETED",
         "1000.00"),
     Row("CARD_PAYMENT", "2023-01-05  10:00:00", "2023-01- 6 \t11:30:00", "-120.00",
         "0.00", "COMPLETED", "1000.00"),
     Row("Topup", Started, "0001-01-01 00:00:00", "50.00", "0.00", "COMPLETED",
         "1000.00"),
     Row("TRANSFER", Started, Completed, "nan", "0.00", "COMPLETED", "1000.00"),
     Row("CARD_PAYMENT", Started, Completed, "-120.00", "inf", "COMPLETED", "-inf"),
     Row("TRANSFER", Started, Completed, "-0.001", "0.00", "COMPLETED", "1000.00"),
     Row("CARD_PAYMENT", Started, Completed, "-120.00", "0.001", "COMPLETED", "1000.00"),
     Row("Topup", Started, Completed, "1000000.12500000001", "0.00", "COMPLETED",
         "1000000.125")}

\* the rows that follow a first row: booked with and without a fee, of a type
\* without a rule, reverted, reverted with an amount that does not convert
CsvLaterRows ==
    {Row("CARD_PAYMENT", Started, Completed, "-120.00", "1.50", "COMPLETED", "1000.00"),
     Row("TRANSFER", Started, Completed, "50.00", "0.00", "COMPLETED", "1000.00"),
     Row("CARD_REFUND", Started, Completed, "-120.00", "0.00", "COMPLETED", "1000.00"),
     Row("CARD_PAYMENT", Started, "", "-120.00", "1.50", "REVERTED", "1000.00"),
     Row("CARD_PAYMENT", Started, "", "", "0.00", "REVERTED", "1000.00")}

CsvFiles ==
    {[file_path |-> "revolut_czk_2301.csv", rows |-> r] :
        r \in SeqsFrom(CsvRows, CsvLaterRows, MaxRows) \cup {<<>>}}
    \cup
    {[file_path |-> "revolut_2212.CSV", rows |-> r] :
        r \in SeqsFrom(CsvRows, CsvRows, 1) \cup {<<>>}}
    \cup
    {[file_path |-> f, rows |-> <<>>] : f \in {"out.d/.csv", "..csv", "out.d/eur1.csv"}}

(***************************************************************************)
(* src/account_statement.py: StatementAccount.__post_init__ on a CSV       *)
(***************************************************************************)
\* initialize_from_csv up to the call of get_transactions_csv
StartCsv(file) ==
    /\ pc = "start"
    /\ EndsWith(Lower(file.file_path), ".csv")
    /\ \E start_balance \in {get_account_start_balance_csv(file.rows)},
          end_balance \in {get_account_end_balance_csv(file.rows)} :
       \E raised \in {~(start_balance.ok /\ end_balance.ok)} :
          /\ \E account_number \in get_account_nr_csv(file.file_path) :
                cur' = [StatementDefault EXCEPT
                            !.file_path = file.file_path,
                            !.csv_content = file.rows,
                            !.bank_name = Some("revolut"),
                            !.account_number = Some(account_number),
                            !.start_balance = start_balance.v,
                            !.end_balance = IF start_balance.ok THEN end_balance.v ELSE None,
                            !.year = IF raised THEN None
                                     ELSE Some(get_statement_year_csv(file.file_path))]
          /\ pc' = IF raised THEN "crashed" ELSE "csv"
    /\ page' = 1
    /\ line' = 0
    /\ active' = FALSE
    /\ invoked' = <<>>
    /\ last' = NoLine
    /\ UNCHANGED <<heap, txAll, stmtAll, nextId>>
    /\ UNCHANGED tail

\* one iteration of the loop over csv_content of get_transactions_csv
ProcessRow ==
    /\ pc = "csv"
    /\ line < Len(cur.csv_content)
    /\ \E row \in {cur.csv_content[line + 1]} :
       \E parsed \in {ParseRow(row)} :
       \E made \in {RowTransactions(cur, row, parsed, 1)} :
          LET new == [n \in 1..Len(made) |-> Len(heap) + n]
          IN  /\ last' = [page |-> 1, index |-> line, text |-> row["Type"]]
              /\ UNCHANGED <<page, active, stmtAll, tail>>
              /\ IF ~parsed.ok
                 THEN \* strptime or float raises ValueError
                      /\ pc' = "crashed"
                      /\ invoked' = <<>>
                      /\ UNCHANGED <<cur, line, heap, txAll, nextId>>
                 ELSE IF ~is_transaction_valid(row["State"])
                 THEN \* continue
                      /\ pc' = "csv"
                      /\ line' = line + 1
                      /\ invoked' = <<>>
                      /\ UNCHANGED <<cur, heap, txAll, nextId>>
                 ELSE /\ pc' = "csv"
                      /\ line' = line + 1
                      /\ invoked' = RulesApplied(row, parsed, 1)
                      /\ heap' = heap \o [n \in 1..Len(made) |->
                                     [made[n] EXCEPT !.transaction_id = nextId + n - 1]]
                      /\ txAll' = txAll \o new
                      /\ nextId' = nextId + Len(made)
                      /\ cur' = [cur EXCEPT !.all_transactions = @ \o new]

\* the end of __post_init__: StatementAccount.all.append(self)
FinishCsv ==
    /\ pc = "csv"
    /\ line >= Len(cur.csv_content)
    /\ stmtAll' = Append(stmtAll, cur)
    /\ pc' = "done"
    /\ UNCHANGED <<cur, page, line, active, heap, txAll, nextId, invoked, last, tail>>

LoadCsv == pc = "start" /\ \E file \in CsvFiles : StartCsv(file)

NextCsv == LoadCsv \/ ProcessRow \/ FinishCsv

SpecCsv == Init /\ [][NextCsv]_vars

(***************************************************************************)
(* src/main.py: main() over the files of a directory                       *)
(***************************************************************************)
\* the most files of the directory
MaxFiles == 2

\* the PDF files of the directory: statements whose transactions add up to
\* the difference of the balances and statements whose do not, with booking
\* dates in and out of order, with a booking date that is no date, with an
\* amount that is an infinity, without a line; a file whose suffix is in
\* upper case
MainPdfFiles ==
    {[file_path |-> "vypis_cs_2301.pdf", pages |-> WithHeader(CsHeader, b)] :
        b \in {<<<<"05.01.2023 Prichozi uhrada", "1111/0800", "+500,00">>>>,
               <<<<"05.01.2023 Prichozi uhrada", "1111/0800", "+480,00">>>>,
               <<<<"05.01.2023 Prichozi uhrada", "1111/0800", "+480,20">>>>,
               <<<<"09.01.2023 Prichozi uhrada", "1111/0800", "+800,00">>,
                 <<"05.01.2023 Inkaso", "5555/0100", "-300,00">>>>,
               <<<<"text">>,
                 <<"Zahranicni prichozi uhrada", "2222/0100", "+1~000,00", "  konec ">>>>}}
    \cup
    {[file_path |-> "vypis_csob_2301.pdf", pages |-> WithHeader(CsobHeader, b)] :
        b \in {<<<<"14.01.", "Odchozi uhrada", "-700,00", "note", "7777/0100">>,
                 <<"05.01.", "Inkaso", "-300,00", "n", "1212/0100">>>>,
               <<<<"13.01.", "Prichozi uhrada", "inf", "note", "6666/0300">>>>}}
    \cup
    {[file_path |-> "prazdny.pdf", pages |-> <<>>],
     [file_path |-> "vypis_cs_2302.PDF", pages |-> <<>>]}

\* the CSV files of the directory: with and without a fee, without a row,
\* with a row that has no Completed Date, with amounts whose sum is no
\* hundredth as a double; a file whose suffix is in upper case
MainCsvFiles ==
    {[file_path |-> "revolut_czk_2301.csv", rows |-> r] :
        r \in {<<Row("TRANSFER", Started, "2023-01-05 08:00:00", "-120.00", "0.00",
                     "COMPLETED", "1000.00"),
                 Row("Topup", Started, "2023-01-05 09:00:00", "50.00", "0.00",
                     "COMPLETED", "1050.00")>>,
               <<Row("CARD_PAYMENT", Started, Completed, "-120.00", "1.50", "COMPLETED",
                     "1000.00")>>,
               <<Row("ATM", Started, "", "-120.00", "0.00", "COMPLETED", "1000.00")>>,
               <<Row("Topup", Started, "2023-01-04 09:00:00", "50.00", "0.00",
                     "COMPLETED", "1000.00"),
                 Row("CARD_PAYMENT", Started, Completed, "-120.00", "1.50", "COMPLETED",
                     "878.50")>>,
               <<Row("Topup", Started, "2023-01-04 09:00:00", "0.1", "0.00", "COMPLETED",
                     "0.1"),
                 Row("Topup", Started, Completed, "0.2", "0.00", "COMPLETED", "0.3")>>,
               <<>>}}
    \cup
    {[file_path |-> "revolut_czk_2302.CSV", rows |-> <<>>]}

\* the file is one that load_csvs reads: get_files_to_process(folder_path,
\* [".csv"]) compares the name as it is written
IsCsvPath(file_path) == EndsWith(file_path, ".csv")

\* the file is one that load_pdfs reads
IsPdfPath(file_path) == EndsWith(file_path, ".pdf")

\* load_pdfs, load_csvs: the loop over the files goes on to the next file
NextFile ==
    /\ pc = "done"
    /\ Len(stmtAll) < MaxFiles
    /\ pc' = "start"
    /\ UNCHANGED <<cur, page, line, active, heap, txAll, stmtAll, nextId, invoked, last, tail>>

\* load_pdfs: StatementAccount(pdf); main() calls it before load_csvs
LoadPdfMain ==
    /\ pc = "start"
    /\ \A n \in 1..Len(stmtAll) : ~IsCsvPath(stmtAll[n].file_path)
    /\ \E file \in MainPdfFiles : IsPdfPath(file.file_path) /\ StartPdf(file)

\* load_csvs: StatementAccount(csv)
LoadCsvMain ==
    /\ pc = "start"
    /\ \E file \in MainCsvFiles : IsCsvPath(file.file_path) /\ StartCsv(file)

\* sum([t.amount for t in s.all_transactions])
RECURSIVE SumAmounts(_, _)
SumAmounts(objects, all_transactions) ==
    IF all_transactions = <<>> THEN "0"
    ELSE FloatAdd(SumAmounts(objects, SubSeq(all_transactions, 1, Len(all_transactions) - 1)),
                  objects[all_transactions[Len(all_transactions)]].amount)

\* round(s.end_balance - s.start_balance, ndigits=2)
BalanceChange(s) == Round2(FloatSub(Val(s.end_balance), Val(s.start_balance)))

\* a check that compares with the sum as it is, not rounded
SumNotRounded(objects, s) == SumAmounts(objects, s.all_transactions)

\* round(sum([t.amount for t in s.all_transactions]), ndigits=2)
RoundedSum(objects, s) == Round2(SumAmounts(objects, s.all_transactions))

\* round((s.end_balance - s.start_balance) - sum(...), ndigits=2)
MissingAmount(objects, s) ==
    Round2(FloatSub(FloatSub(Val(s.end_balance), Val(s.start_balance)),
                    SumAmounts(objects, s.all_transactions)))

\* one iteration of the loop of validate_all_transactions_extracted; main()
\* calls it after analyze_all_transactions, which sets no field that the
\* model holds
ValidateStatement ==
    /\ pc \in {"done", "validate"}
    /\ checked < Len(stmtAll)
    /\ \E s \in {stmtAll[checked + 1]} :
          IF s.end_balance = None \/ s.start_balance = None
          THEN \* None - None: TypeError
               /\ pc' = "crashed"
               /\ UNCHANGED <<checked, printed>>
          ELSE /\ pc' = "validate"
               /\ checked' = checked + 1
               /\ printed' = IF ~FloatEqual(BalanceChange(s), RoundedSum(heap, s))
                             THEN Append(printed, [file_path |-> s.file_path,
                                                   missing |-> MissingAmount(heap, s)])
                             ELSE printed
    /\ UNCHANGED <<cur, page, line, active, heap, txAll, stmtAll, nextId, invoked, last,
                   json_file, csv_file, aside>>

(***************************************************************************)
(* src/transactions.py: sort_transactions, save_transactions_json          *)
(***************************************************************************)
\* datetime.strptime(text, "%d.%m.%Y"): [ok |-> no ValueError, key |-> a
\* number that orders the dates]; the day and the month have one or two
\* digits (the day may be a space and a digit), the year has four
ParseDate(text) ==
    The({IF /\ Len(f) = 3
            /\ IsDayText(f[1])
            /\ IsMonthText(f[2])
            /\ IsDigit(f[3])
            /\ Len(f[3]) = 4
            /\ DigitsValue(f[3]) >= 1
            /\ DayValue(f[1]) <= DaysIn(DigitsValue(f[2]), DigitsValue(f[3]))
         THEN [ok |-> TRUE,
               key |-> 10000 * DigitsValue(f[3]) + 100 * DigitsValue(f[2])
                       + DayValue(f[1])]
         ELSE [ok |-> FALSE, key |-> 0] : f \in {Fields(text, <<".", ".">>)}})

\* get_sort_key raises for tx: TypeError for None, ValueError for a text that
\* is no date
SortKeyRaises(tx) == tx.date_booked = None \/ ~ParseDate(Val(tx.date_booked)).ok

\* a key that orders two transactions of one date by descending id
SortKeyNewestFirst(tx) == <<ParseDate(Val(tx.date_booked)).key, 0 - tx.transaction_id>>

\* get_sort_key: (date, transaction_id)
get_sort_key(tx) == <<ParseDate(Val(tx.date_booked)).key, tx.transaction_id>>

\* the order of tuples of two numbers
KeyBefore(a, b) == a[1] < b[1] \/ (a[1] = b[1] /\ a[2] < b[2])

\* cls.all.sort(key=get_sort_key): a stable sort, so of two entries with
\* equal keys the one that was first stays first
sort_transactions(objects, all) ==
    LET key == [n \in 1..Len(all) |-> get_sort_key(objects[all[n]])]
        rank(n) == Cardinality({m \in 1..Len(all) :
                                   \/ KeyBefore(key[m], key[n])
                                   \/ (key[m] = key[n] /\ m <= n)})
    IN  [r \in 1..Len(all) |-> all[CHOOSE n \in 1..Len(all) : rank(n) = r]]

\* a numbering that counts from the end of the list
IndexFromEnd(all, h) == Len(all) + 1 - (CHOOSE n \in 1..Len(all) : all[n] = h)

\* the index of object h in the list all
IndexIn(all, h) == CHOOSE n \in 1..Len(all) : all[n] = h

\* {"type": type(t).__name__, **asdict(t)}: the keys of the record are "type"
\* and the names of the dataclass fields of the class
JsonRecord(tx) == [type |-> tx.kind, with_id |-> TRUE, tx |-> tx]

\* save_transactions_json: sort, renumber, write transactions.json
SortAndSave(to) ==
    /\ IF \E n \in 1..Len(txAll) : SortKeyRaises(heap[txAll[n]])
       THEN /\ pc' = "crashed"
            /\ UNCHANGED <<heap, txAll, json_file>>
       ELSE \E sorted \in {sort_transactions(heap, txAll)} :
            \E renumbered \in {[h \in 1..Len(heap) |->
                                  IF \E n \in 1..Len(sorted) : sorted[n] = h
                                  THEN [heap[h] EXCEPT !.transaction_id = IndexIn(sorted, h)]
                                  ELSE heap[h]]} :
               /\ pc' = to
               /\ txAll' = sorted
               /\ heap' = renumbered
               /\ json_file' = Some([n \in 1..Len(sorted) |-> JsonRecord(renumbered[sorted[n]])])
    /\ UNCHANGED <<cur, page, line, active, stmtAll, nextId, invoked, last, checked, printed,
                   csv_file, aside>>

\* save_transactions() of main(): the call of save_transactions_json
SaveJson ==
    /\ \/ pc = "validate" /\ checked = Len(stmtAll)
       \/ pc = "start" /\ stmtAll = <<>>
    /\ SortAndSave("saved")

\* a second call of save_transactions_json, on the registry that the first
\* call has sorted and renumbered
SaveJsonAgain ==
    /\ pc = "exported"
    /\ SortAndSave("resaved")

(***************************************************************************)
(* src/transactions.py: transactions_to_csv                                *)
(***************************************************************************)
\* str(tx.amount).replace(".", ",")
FormatAmount(amount) == Replace(amount, ".", ",")

\* str(datetime.strptime(date_booked, "%d.%m.%Y")) of a date that parses
CsvDate(date_booked) ==
    The({Pad2(k \div 1000000) \o Pad2((k \div 10000) % 100) \o "-" \o Pad2((k \div 100) % 100)
         \o "-" \o Pad2(k % 100) \o " 00:00:00" : k \in {ParseDate(date_booked).key}})

\* the row cannot be written: service_type.replace on None (AttributeError),
\* strptime on a date that is None (TypeError) or does not parse (ValueError)
CsvRowRaises(tx) ==
    \/ tx.kind = "BankPayedService" /\ tx.service_type = None
    \/ SortKeyRaises(tx)

\* the type column: the class name and, for a BankPayedService with a service
\* type, " - " and the service type without its line feeds
CsvType(tx) ==
    IF tx.kind = "BankPayedService" /\ Replace(Val(tx.service_type), LF, "") # ""
    THEN tx.kind \o " - " \o Replace(Val(tx.service_type), LF, "")
    ELSE tx.kind

\* the row of a transaction; the columns Category and Description, which the
\* rules of the user fill, are left out
CsvRow(tx) ==
    [transaction_id |-> tx.transaction_id,
     statement_account |-> tx.statement_account,
     date_booked |-> CsvDate(Val(tx.date_booked)),
     type |-> CsvType(tx),
     account_from |-> tx.account_from,
     account_to |-> tx.account_to,
     amount |-> FormatAmount(tx.amount),
     currency |-> tx.currency,
     all_transaction_lines_text |-> tx.all_transaction_lines_text]

\* an export that writes the transactions in the order of their creation
CsvRowsAsCreated(objects, all) ==
    [n \in 1..Len(all) |-> CsvRow(objects[n])]

\* for tx in Transaction.all: writer.writerow([...])
CsvRowsOf(objects, all) ==
    [n \in 1..Len(all) |-> CsvRow(objects[all[n]])]

\* the transactions of the list before the first one whose row cannot be written
Writable(objects, all) ==
    SubSeq(all, 1, Least({n \in 1..(Len(all) + 1) :
                             n = Len(all) + 1 \/ CsvRowRaises(objects[all[n]])}) - 1)

\* transactions_to_csv: a row for every transaction of Transaction.all, in the
\* order of the list; the rows written before an error stay in the file
SaveCsv ==
    /\ pc = "saved"
    /\ pc' = IF Writable(heap, txAll) = txAll THEN "exported" ELSE "crashed"
    /\ csv_file' = Some(CsvRowsOf(heap, Writable(heap, txAll)))
    /\ UNCHANGED <<cur, page, line, active, heap, txAll, stmtAll, nextId, invoked, last,
                   checked, printed, json_file, aside>>

(***************************************************************************)
(* src/transactions.py: load_transactions_json                             *)
(***************************************************************************)
\* the dataclass fields that a class adds to those of Transaction
ExtraFields(kind) ==
    CASE kind \in {"CardPaymentDebit", "CardPaymentIncoming"} ->
             {"payment_date", "card_identifier", "vendor_text", "card_owner"}
      [] kind = "CardAtmCashOut" ->
             {"payment_date", "card_identifier", "vendor_text", "card_owner",
              "our_bank_atm", "cash_out_date"}
      [] kind = "CardAtmDeposit" -> {"deposit_date"}
      [] kind = "BankPayedService" -> {"service_type"}
      [] OTHER -> {}

\* the if/elif chain of load_transactions_json: the class that is constructed
\* for a type, <<>> when no branch is taken
JsonClass(type) ==
    IF type \in {"IncomingPayment", "OutgoingPayment", "OutgoingPaymentPeriodic",
                 "CardPaymentDebit", "CardPaymentIncoming", "CardAtmCashOut",
                 "BankPayedService", "InterestPositive", "TaxInterest", "DirectDebit"}
    THEN <<type>>
    ELSE IF type = "IncomingElectronicBankingTransfer" THEN <<"ElectronicBankingTransfer">>
    ELSE <<>>

\* Class(**transaction) raises TypeError: the record has a key that is no
\* parameter of __init__, which transaction_id (init=False) never is
ConstructorRaises(class, record) ==
    \/ record.with_id
    \/ ~(ExtraFields(record.tx.kind) \subseteq ExtraFields(class))

\* Class(**transaction): the object before Transaction.__post_init__
Constructed(class, record) ==
    Ok([record.tx EXCEPT !.kind = class, !.transaction_id = 0]).tx

\* a later run of the program: its class attributes are new
Reload ==
    /\ pc = "exported"
    /\ pc' = "load"
    /\ cur' = StatementDefault
    /\ page' = 1
    /\ line' = 0
    /\ active' = FALSE
    /\ heap' = <<>>
    /\ txAll' = <<>>
    /\ stmtAll' = <<>>
    /\ nextId' = 1
    /\ invoked' = <<>>
    /\ last' = NoLine
    /\ checked' = 0
    /\ printed' = <<>>
    /\ UNCHANGED <<json_file, csv_file, aside>>

\* one iteration of the loop of load_transactions_json
LoadRecord ==
    /\ pc = "load"
    /\ json_file # None
    /\ line < Len(Val(json_file))
    /\ \E record \in {Val(json_file)[line + 1]} :
       \E class \in {JsonClass(record.type)} :
          IF class = <<>>
          THEN /\ pc' = "load"
               /\ line' = line + 1
               /\ UNCHANGED <<heap, txAll, nextId>>
          ELSE IF ConstructorRaises(class[1], record)
          THEN /\ pc' = "crashed"
               /\ UNCHANGED <<line, heap, txAll, nextId>>
          ELSE /\ pc' = "load"
               /\ line' = line + 1
               /\ heap' = Append(heap, Registered(Constructed(class[1], record)))
               /\ txAll' = Append(txAll, Len(heap) + 1)
               /\ nextId' = nextId + 1
    /\ UNCHANGED <<cur, page, active, stmtAll, invoked, last, tail>>

\* the end of load_transactions_json: the loop is over, or open() has raised
\* FileNotFoundError, which is passed over
LoadJsonDone ==
    /\ pc = "load"
    /\ line >= (IF json_file = None THEN 0 ELSE Len(Val(json_file)))
    /\ pc' = "loaded"
    /\ UNCHANGED <<cur, page, line, active, heap, txAll, stmtAll, nextId, invoked, last, tail>>

NextMain ==
    \/ LoadPdfMain
    \/ LoadCsvMain
    \/ ProcessLine
    \/ ProcessRow
    \/ FinishStatement
    \/ FinishCsv
    \/ NextFile
    \/ ValidateStatement
    \/ SaveJson
    \/ SaveCsv
    \/ SaveJsonAgain
    \/ Reload
    \/ LoadRecord
    \/ LoadJsonDone

SpecMain == Init /\ [][NextMain]_vars

(***************************************************************************)
(* load_transactions_json on the files transactions.json that may be there *)
(***************************************************************************)
\* the most records of transactions.json
MaxRecords == 2

\* objects as save_transactions_json has written them
JsonObjects ==
    {[TxDefault EXCEPT !.kind = "IncomingPayment", !.transaction_id = 1,
                       !.statement_account = Some("1234567890/0800"),
                       !.account_to = Some("1234567890/0800"),
                       !.amount = "500.0", !.date_booked = Some("05.01.2023")],
     [TxDefault EXCEPT !.kind = "BankPayedService", !.transaction_id = 2,
                       !.statement_account = Some("LT443250037740989361CZK"),
                       !.amount = "-1.5", !.date_booked = Some("06.01.2023"),
                       !.service_type = Some("transaction fee")],
     [TxDefault EXCEPT !.kind = "CardPaymentDebit", !.transaction_id = 3,
                       !.statement_account = Some("LT443250037740989361CZK"),
                       !.amount = "-120.0", !.date_booked = Some("06.01.2023"),
                       !.card_identifier = Some("9448"),
                       !.card_owner = Some("Ondra, REVOLUT, MC")],
     [TxDefault EXCEPT !.kind = "ElectronicBankingTransfer", !.transaction_id = 4,
                       !.statement_account = Some("987654321/0300"),
                       !.amount = "40.0", !.date_booked = Some("21.01.2023")],
     [TxDefault EXCEPT !.kind = "CardAtmDeposit", !.transaction_id = 5,
                       !.statement_account = Some("1234567890/0800"),
                       !.amount = "5000.0", !.date_booked = Some("11.01.2023"),
                       !.deposit_date = "11.01.2023"]}

\* records as written, records without the key transaction_id, records with
\* another type than the class of their object
JsonRecords ==
    {[type |-> tx.kind, with_id |-> w, tx |-> tx] : tx \in JsonObjects, w \in BOOLEAN}
    \cup
    {[type |-> t, with_id |-> FALSE, tx |-> tx] :
        t \in {"Unknown", "", "incomingpayment", "IncomingElectronicBankingTransfer",
               "IncomingPayment"},
        tx \in {x \in JsonObjects : x.kind \in {"ElectronicBankingTransfer",
                                                 "BankPayedService"}}}

\* the records that follow a first record
JsonLaterRecords ==
    {r \in JsonRecords : /\ r.tx.kind \in {"IncomingPayment", "BankPayedService"}
                         /\ r.type \in {"IncomingPayment", "BankPayedService", "Unknown"}}

\* transactions.json: not there, or a list of records
JsonFiles ==
    {None, Some(<<>>)}
    \cup {Some(f) : f \in SeqsFrom(JsonRecords, JsonLaterRecords, MaxRecords)}

\* a run that calls load_transactions_json with an empty registry
InitJson ==
    /\ pc = "load"
    /\ cur = StatementDefault
    /\ page = 1
    /\ line = 0
    /\ active = FALSE
    /\ heap = <<>>
    /\ txAll = <<>>
    /\ stmtAll = <<>>
    /\ nextId = 1
    /\ invoked = <<>>
    /\ last = NoLine
    /\ checked = 0
    /\ printed = <<>>
    /\ json_file \in JsonFiles
    /\ csv_file = None
    /\ walk = NoWalk
    /\ conversion = NoAmount
    /\ scan = NoScan

NextJson == LoadRecord \/ LoadJsonDone

SpecJson == InitJson /\ [][NextJson]_vars

(***************************************************************************)
(* src/main.py: get_files_to_process                                       *)
(***************************************************************************)
\* the most files under the root directory
MaxNames == 2

\* the files that os.walk finds: the directory and the name of each; the
\* directory of a walk of "vypisy/" ends with the separator
DirEntries ==
    {[dirpath |-> d, name |-> n] :
        d \in {"vypisy", "vypisy/2023", "vypisy/"},
        n \in {"a.pdf", "A.PDF", "b.csv", "B.Csv", "notes.txt", "pdf", "a.pdf.bak"}}

\* the files that follow a first file
DirLaterEntries ==
    {[dirpath |-> "vypisy/2023", name |-> n] : n \in {"a.pdf", "A.PDF", "notes.txt"}}

\* the lists of suffixes of the calls
SuffixLists == {<<".pdf">>, <<".csv">>, <<".PDF">>, <<".pdf", ".csv">>}

\* os.path.join(dirpath, f) for a name f that starts with no separator: a
\* separator is put between the two unless dirpath is empty or ends with one
PathJoin(dirpath, f) ==
    IF dirpath = "" \/ EndsWith(dirpath, "/") THEN dirpath \o f ELSE dirpath \o "/" \o f

\* any(f.endswith(suffix.lower()) for suffix in suffixes)
HasSuffix(f, suffixes) ==
    \E n \in 1..Len(suffixes) : EndsWith(f, Lower(suffixes[n]))

\* get_files_to_process: os.path.join(dirpath, f) of the files with a suffix
\* of the list, in the order of os.walk
RECURSIVE get_files_to_process(_, _)
get_files_to_process(filenames, suffixes) ==
    IF filenames = <<>> THEN <<>>
    ELSE (IF HasSuffix(Head(filenames).name, suffixes)
          THEN <<PathJoin(Head(filenames).dirpath, Head(filenames).name)>>
          ELSE <<>>)
         \o get_files_to_process(Tail(filenames), suffixes)

\* a call of get_files_to_process
InitFiles ==
    /\ pc = "walk"
    /\ cur = StatementDefault
    /\ page = 1
    /\ line = 0
    /\ active = FALSE
    /\ heap = <<>>
    /\ txAll = <<>>
    /\ stmtAll = <<>>
    /\ nextId = 1
    /\ invoked = <<>>
    /\ last = NoLine
    /\ checked = 0
    /\ printed = <<>>
    /\ json_file = None
    /\ csv_file = None
    /\ \E f \in SeqsFrom(DirEntries, DirLaterEntries, MaxNames) \cup {<<>>} :
       \E x \in SuffixLists :
          walk = [filenames |-> f, suffixes |-> x, files |-> None]
    /\ conversion = NoAmount
    /\ scan = NoScan

GetFiles ==
    /\ pc = "walk"
    /\ pc' = "walked"
    /\ walk' = [walk EXCEPT !.files = Some(get_files_to_process(walk.filenames,
                                                                walk.suffixes))]
    /\ UNCHANGED <<cur, page, line, active, heap, txAll, stmtAll, nextId, invoked, last,
                   checked, printed, json_file, csv_file, conversion, scan>>

SpecFiles == InitFiles /\ [][GetFiles]_vars

(***************************************************************************)
(* src/helper_functions.py: pdf_amount_to_float on amount texts            *)
(***************************************************************************)
\* amount texts: a sign or none, digits with or without a separator of
\* thousands, a comma or a point, fractional digits; texts that are no amount
AmountTexts ==
    {sign \o int \o sep \o frac :
        sign \in {"", "+", "-"},
        int \in {"0", "7", "12", "1 234", "30~000"},
        sep \in {",", "."},
        frac \in {"00", "56", "5", "125", "675", "005", "665", "0049"}}
    \cup {"-1 234,56", "1234", "+30 000", "", " ", "abc", "12 Kc", "1,2,3", "--5", "1 000,-",
          "+", ",", "nan", "-inf", "1000000.12500000001", "-0,001", "0,30000000000000004",
          "1e3", "1_0,5", "5" \o VT, VT \o "-1 234,56", "+500,00" \o VT, "5" \o FS,
          US \o "5"}

\* a call of pdf_amount_to_float
InitAmount ==
    /\ pc = "amount"
    /\ cur = StatementDefault
    /\ page = 1
    /\ line = 0
    /\ active = FALSE
    /\ heap = <<>>
    /\ txAll = <<>>
    /\ stmtAll = <<>>
    /\ nextId = 1
    /\ invoked = <<>>
    /\ last = NoLine
    /\ checked = 0
    /\ printed = <<>>
    /\ json_file = None
    /\ csv_file = None
    /\ walk = NoWalk
    /\ \E t \in AmountTexts : conversion = [text |-> t, result |-> None]
    /\ scan = NoScan

ParseAmount ==
    /\ pc = "amount"
    /\ pc' = "parsed"
    /\ conversion' = [conversion EXCEPT
                        !.result = Some(pdf_amount_to_float(conversion.text))]
    /\ UNCHANGED <<cur, page, line, active, heap, txAll, stmtAll, nextId, invoked, last,
                   checked, printed, json_file, csv_file, walk, scan>>

SpecAmount == InitAmount /\ [][ParseAmount]_vars

(***************************************************************************)
(* src/helper_functions.py: get_amount_line on the lines of a page         *)
(***************************************************************************)
\* the most lines of the page that is searched
MaxScanLines == 3

\* lines of a page: amounts with a sign, amounts without one, texts, and
\* lines of digits, signs and separators that are no numeral
ScanLines ==
    {"+500,00", "-1 234,56", "+30~000.00", " -7,50 ", "0.00", "0,00", "500,00", "0.00 ",
     "text", "", "+", "-", "1-2", "5-", "+-5", "1.2.3+", "12.05. - platba", "+ 1 000"}

\* the lines that follow a first line
ScanLaterLines == {"text", "-7,50", "1-2", "0.00", "12.05. - platba"}

\* a call of get_amount_line
InitScan ==
    /\ pc = "scan"
    /\ cur = StatementDefault
    /\ page = 1
    /\ line = 0
    /\ active = FALSE
    /\ heap = <<>>
    /\ txAll = <<>>
    /\ stmtAll = <<>>
    /\ nextId = 1
    /\ invoked = <<>>
    /\ last = NoLine
    /\ checked = 0
    /\ printed = <<>>
    /\ json_file = None
    /\ csv_file = None
    /\ walk = NoWalk
    /\ conversion = NoAmount
    /\ \E lines \in SeqsFrom(ScanLines, ScanLaterLines, MaxScanLines) \cup {<<>>} :
       \E from \in 0..(Len(lines) + 1) :
          scan = [lines |-> lines, from |-> from, found |-> None]

\* amount_line = get_amount_line(extracted_text_lines, line_index)
ScanLine ==
    /\ pc = "scan"
    /\ pc' = "scanned"
    /\ scan' = [scan EXCEPT !.found = Some(get_amount_line(scan.lines, scan.from))]
    /\ UNCHANGED <<cur, page, line, active, heap, txAll, stmtAll, nextId, invoked, last,
                   checked, printed, json_file, csv_file, walk, conversion>>

\* amount = pdf_amount_to_float(amount_line[0].strip()); None has no strip
ConvertFound ==
    /\ pc = "scanned"
    /\ IF Val(scan.found).line = None
       THEN /\ pc' = "crashed"
            /\ UNCHANGED conversion
       ELSE /\ pc' = "converted"
            /\ conversion' = [text |-> Strip(Val(Val(scan.found).line)),
                              result |-> Some(pdf_amount_to_float(
                                                 Strip(Val(Val(scan.found).line))))]
    /\ UNCHANGED <<cur, page, line, active, heap, txAll, stmtAll, nextId, invoked, last,
                   checked, printed, json_file, csv_file, walk, scan>>

NextScan == ScanLine \/ ConvertFound

SpecScan == InitScan /\ [][NextScan]_vars

(***************************************************************************)
(* Properties of the PDF segmentation                                      *)
(***************************************************************************)
\* the bank of the statement that is read, "" when it has none
CurBank == IF cur.bank_name = None THEN "" ELSE Val(cur.bank_name)

\* the kinds with a marker for bank in text
Matching(bank, text) == {k \in KindSet : HasMarker(k, bank, text)}

\* the next step processes a line of a cs or csob statement
LineStep ==
    /\ pc = "pdf"
    /\ page <= Len(cur.pages_content_pdf)
    /\ CurBank \in MarkerBanks

\* the line that the next step processes
CurText == cur.pages_content_pdf[page][line + 1]

\* the last step processed a marker line of a cs or csob statement
AfterMarkerLine ==
    /\ last.page > 0
    /\ CurBank \in MarkerBanks
    /\ Matching(CurBank, last.text) # {}

\* the last step processed a marker line and created a Transaction from it
CreatedFromLastLine == AfterMarkerLine /\ pc \in {"pdf", "done"}

\* the page of the last processed line
LastLines == cur.pages_content_pdf[last.page]

ClaimedPrecedence ==
    <<"CardPaymentIncoming", "IncomingPayment", "OutgoingPayment", "CardPaymentDebit",
      "CardAtmCashOut", "BankPayedService", "OutgoingPaymentPeriodic", "InterestPositive",
      "TaxInterest", "ElectronicBankingTransfer", "DirectDebit", "CardAtmDeposit">>

\* C1: after a line with the markers of two or more kinds for the bank of the
\* statement, exactly one extraction rule has been invoked for the line: the
\* rule of the matching kind that comes first in the order CardPaymentIncoming,
\* IncomingPayment, OutgoingPayment, CardPaymentDebit, CardAtmCashOut,
\* BankPayedService, OutgoingPaymentPeriodic, InterestPositive, TaxInterest,
\* ElectronicBankingTransfer, DirectDebit, CardAtmDeposit.
C1_FirstMatchWins ==
    (AfterMarkerLine /\ Cardinality(Matching(CurBank, last.text)) >= 2) =>
        LET ranks == {n \in 1..Len(ClaimedPrecedence) :
                         ClaimedPrecedence[n] \in Matching(CurBank, last.text)}
        IN  invoked = <<ClaimedPrecedence[Least(ranks)]>>

\* a line with the markers of OutgoingPaymentPeriodic and of DirectDebit has
\* been processed
C1_Witness ==
    /\ AfterMarkerLine
    /\ {"OutgoingPaymentPeriodic", "DirectDebit"} \subseteq Matching(CurBank, last.text)
    /\ invoked = <<"OutgoingPaymentPeriodic">>

\* C2: processing a line that contains a marker of some kind for the bank of
\* the statement (cs or csob), and whose offset lines are well-formed, adds
\* exactly one new Transaction, appends it once to the list of the statement
\* and once to the global registry, gives it the file path of the statement
\* as parent_statement, and leaves the engine Accumulating on it.
C2_MarkerLineAddsOne ==
    [][(/\ LineStep
        /\ Matching(CurBank, CurText) # {}
        /\ Create(Dispatch(CurBank, CurText)[1], CurBank, cur.year, cur.account_number,
                  line, cur.pages_content_pdf[page]).st # "error")
       => /\ pc' # "crashed"
          /\ Len(heap') = Len(heap) + 1
          /\ txAll' = Append(txAll, Len(heap'))
          /\ cur'.all_transactions = Append(cur.all_transactions, Len(heap'))
          /\ heap'[Len(heap')].parent_statement = Some(cur.file_path)
          /\ active']_vars

\* C3: the Transaction created for a line with the marker of a kind has
\* exactly that kind, and the one created for a CardPaymentIncoming marker
\* has the account of the statement as account_to.
C3_KindOfMarker ==
    (CreatedFromLastLine /\ invoked # <<>>) =>
        /\ heap[Len(heap)].kind = invoked[1]
        /\ invoked[1] = "CardPaymentIncoming" =>
               heap[Len(heap)].account_to = cur.account_number

\* C4: for the bank of the statement that is read, no marker of one kind
\* equals or contains a marker of another kind, and no processed line matches
\* two different kinds.
C4_MarkersDisjoint ==
    (pc # "start" /\ CurBank \in MarkerBanks) =>
        /\ \A k1 \in KindSet : \A k2 \in KindSet \ {k1} :
              \A n1 \in 1..Len(text_identifiers(k1)[CurBank]) :
              \A n2 \in 1..Len(text_identifiers(k2)[CurBank]) :
                  ~Contains(text_identifiers(k1)[CurBank][n1],
                            text_identifiers(k2)[CurBank][n2])
        /\ last.page > 0 => Cardinality(Matching(CurBank, last.text)) <= 1

\* C5: a line without a marker that equals a section-end sentinel leaves the
\* engine Idle, and an Idle engine that processes a line without a marker
\* stays Idle, appends to the body of no transaction and changes no registry.
C5_SentinelClosesIdleSkips ==
    [][(LineStep /\ Matching(CurBank, CurText) = {})
       => /\ CurText \in TRANSACTION_END_SECTION => ~active'
          /\ ~active => /\ ~active'
                        /\ heap' = heap
                        /\ txAll' = txAll
                        /\ stmtAll' = stmtAll
                        /\ cur'.all_transactions = cur.all_transactions]_vars

\* after a transaction a sentinel has closed the section, and the engine has
\* skipped a line of text
C5_Witness ==
    /\ last.page > 0
    /\ CurBank \in MarkerBanks
    /\ ~active
    /\ Len(heap) > 0
    /\ last.text = "after"
    /\ last.index > 0
    /\ LastLines[last.index] \in TRANSACTION_END_SECTION
    /\ \A h \in 1..Len(heap) : ~Contains(heap[h].all_transaction_lines_text, "after")

\* C6: an Accumulating engine appends a non-empty line that is neither a
\* marker line nor a sentinel, trimmed and followed by a newline, to the body
\* of the most recently created transaction, and changes nothing else in the
\* transactions; it appends a marker line, a sentinel or an empty line to no
\* body.
C6_AccumulatingAppends ==
    [][(LineStep /\ active)
       => IF /\ Matching(CurBank, CurText) = {}
             /\ CurText \notin TRANSACTION_END_SECTION
             /\ CurText # ""
          THEN /\ Len(heap) > 0
               /\ cur.all_transactions # <<>>
               /\ cur.all_transactions[Len(cur.all_transactions)] = Len(heap)
               /\ heap' = [heap EXCEPT ![Len(heap)].all_transaction_lines_text =
                                           @ \o Strip(CurText) \o "\n"]
          ELSE /\ Len(heap') >= Len(heap)
               /\ \A h \in 1..Len(heap) :
                     heap'[h].all_transaction_lines_text = heap[h].all_transaction_lines_text
               /\ \A h \in (Len(heap) + 1)..Len(heap') :
                     heap'[h].all_transaction_lines_text = ""]_vars

\* a line with surrounding blanks has been appended to the body of the
\* transaction of the marker before it
C6_Witness ==
    /\ last.page > 0
    /\ active
    /\ last.text = "  konec "
    /\ Len(heap) > 0
    /\ EndsWith(heap[Len(heap)].all_transaction_lines_text, "konec\n")
    /\ ~Contains(heap[Len(heap)].all_transaction_lines_text, "Zahranicni")

\* C7: when a position that the extraction rule reads for a marker line lies
\* outside the line list of the page, the extraction fails and creates no
\* Transaction.
C7_ReadOutsidePageFails ==
    (AfterMarkerLine /\ invoked # <<>>) =>
        ((\E r \in ReadPositions(invoked[1], CurBank, last.index, LastLines) :
              r < 0 \/ r >= Len(LastLines))
         => pc = "crashed")

\* C8: date_booked of a Transaction created from a marker line is the first
\* dd.mm.yyyy date of the marker line; without one it is the trimmed line
\* before the marker line on the same page, for csob followed by the year of
\* the statement.
C8_BookingDate ==
    (CreatedFromLastLine /\ invoked # <<>>) =>
        IF text_contains_date(last.text) # None
        THEN heap[Len(heap)].date_booked = text_contains_date(last.text)
        ELSE /\ last.index >= 1
             /\ heap[Len(heap)].date_booked =
                    Some(Strip(LastLines[last.index])
                         \o (IF CurBank = "csob" THEN Val(cur.year) ELSE ""))

(***************************************************************************)
(* Properties of the CSV path                                              *)
(***************************************************************************)
\* the next step processes a row of a CSV statement
RowStep == pc = "csv" /\ line < Len(cur.csv_content)

\* the row that the next step processes
CurRow == cur.csv_content[line + 1]

\* C9: processing a row whose State is not "Completed", compared without
\* regard to case, only moves on to the next row, whatever its other fields
\* hold: it adds no Transaction to the list of the statement or to the global
\* registry and changes nothing else.
C9_OtherStateSkipped ==
    [][(RowStep /\ Lower(CurRow["State"]) # "completed")
       => /\ pc' = "csv"
          /\ line' = line + 1
          /\ heap' = heap
          /\ txAll' = txAll
          /\ cur' = cur
          /\ stmtAll' = stmtAll]_vars

\* the kind that the table of the claim selects, as a sequence of length 0 or 1
ClaimedKind(type, negative) ==
    CASE type \in {"transfer", "exchange"} /\ negative -> <<"OutgoingPayment">>
      [] type \in {"transfer", "exchange", "topup"} /\ ~negative -> <<"IncomingPayment">>
      [] type = "card_payment" /\ negative -> <<"CardPaymentDebit">>
      [] type = "card_payment" /\ ~negative -> <<"CardPaymentIncoming">>
      [] type = "fee" /\ negative -> <<"BankPayedService">>
      [] type = "atm" /\ negative -> <<"CardAtmCashOut">>
      [] OTHER -> <<>>

\* C10: processing a Completed row whose fields convert creates at most one
\* primary Transaction (one that is not the synthesized fee), of the kind
\* selected by the lower-cased Type and the sign of Amount: transfer or
\* exchange negative OutgoingPayment; transfer, exchange or topup non-negative
\* IncomingPayment; card_payment negative CardPaymentDebit, non-negative
\* CardPaymentIncoming; fee negative BankPayedService; atm negative
\* CardAtmCashOut; any other row creates none.
C10_PrimaryKind ==
    [][(/\ RowStep
        /\ Lower(CurRow["State"]) = "completed"
        /\ ParseRow(CurRow).ok)
       => LET expected == ClaimedKind(Lower(CurRow["Type"]),
                                      FloatLess(ParseFloat(CurRow["Amount"]).val, "0"))
              primary == {h \in (Len(heap) + 1)..Len(heap') :
                             heap'[h].service_type # Some("transaction fee")}
          IN  /\ pc' = "csv"
              /\ Cardinality(primary) = Len(expected)
              /\ \A h \in primary :
                    /\ heap'[h].kind = expected[1]
                    /\ h = Len(heap) + 1
                    /\ h \in {txAll'[n] : n \in 1..Len(txAll')}
                    /\ h \in {cur'.all_transactions[n] : n \in 1..Len(cur'.all_transactions)}]_vars

\* a Completed transfer with the Amount -0.001, which is negative and
\* rounds to no hundredth, has created an OutgoingPayment of that amount
C10_Witness ==
    /\ pc \in {"csv", "done"}
    /\ last.page = 1
    /\ cur.csv_content # <<>>
    /\ Lower(cur.csv_content[last.index + 1]["Type"]) = "transfer"
    /\ cur.csv_content[last.index + 1]["Amount"] = "-0.001"
    /\ invoked = <<"OutgoingPayment">>
    /\ Len(heap) > 0
    /\ heap[Len(heap)].kind = "OutgoingPayment"
    /\ heap[Len(heap)].amount = "-0.001"

\* C11: processing a Completed row whose fields convert and whose Fee is not
\* zero creates, next to the primary Transaction of the row, a BankPayedService
\* with amount minus the fee, service_type "transaction fee" and the booking
\* date and the currency of the row, and appends it to the list of the
\* statement directly after the primary Transaction.
C11_FeeTransaction ==
    [][(/\ RowStep
        /\ Lower(CurRow["State"]) = "completed"
        /\ ParseRow(CurRow).ok
        /\ ~FloatEqual(ParseRow(CurRow).fee, "0"))
       => /\ pc' = "csv"
          /\ Len(heap') = Len(heap) + 2
          /\ heap'[Len(heap') - 1].service_type # Some("transaction fee")
          /\ heap'[Len(heap')].kind = "BankPayedService"
          /\ heap'[Len(heap')].amount = FloatNeg(ParseRow(CurRow).fee)
          /\ heap'[Len(heap')].service_type = Some("transaction fee")
          /\ heap'[Len(heap')].date_booked = Some(ParseRow(CurRow).date_completed)
          /\ heap'[Len(heap')].currency = CurRow["Currency"]
          /\ cur'.all_transactions
                = cur.all_transactions \o <<Len(heap') - 1, Len(heap')>>]_vars

(***************************************************************************)
(* Properties of main(): reconciliation, sorting, ids                      *)
(***************************************************************************)
\* the sum of the amounts of the transactions that statement s owns
RECURSIVE OwnedSum(_, _)
OwnedSum(s, n) ==
    IF n = 0 THEN "0"
    ELSE FloatAdd(OwnedSum(s, n - 1), heap[s.all_transactions[n]].amount)

\* C12: when the reconciliation has gone through a recorded statement, it has
\* printed a warning for it if and only if closing balance minus opening
\* balance, rounded to two decimals, differs from the sum of the amounts of
\* the transactions the statement owns, rounded to two decimals, and the
\* warning reports (closing - opening) - sum rounded to two decimals.
C12_WarningIffMismatch ==
    [][(pc' = "validate" /\ checked' = checked + 1)
       => LET s == stmtAll[checked']
              change == FloatSub(Val(s.end_balance), Val(s.start_balance))
              sum == OwnedSum(s, Len(s.all_transactions))
          IN  IF FloatEqual(Round2(change), Round2(sum)) THEN printed' = printed
              ELSE printed' = Append(printed, [file_path |-> s.file_path,
                                               missing |-> Round2(FloatSub(change, sum))])]_vars

\* a statement from 1000.00 to 1500.00 with a sum of 480.20 has got the
\* warning with the missing amount 19.8, the hundredths of the difference
\* 19.80000000000001, and a statement whose change 0.3 and whose sum
\* 0.30000000000000004 differ and round to one value has passed without one
C12_Witness ==
    /\ pc = "validate"
    /\ checked = 2
    /\ stmtAll[1].start_balance = Some("1000.0")
    /\ stmtAll[1].end_balance = Some("1500.0")
    /\ OwnedSum(stmtAll[1], Len(stmtAll[1].all_transactions)) = "480.2"
    /\ FloatSub("500.0", "480.2") = "19.80000000000001"
    /\ FloatSub(Val(stmtAll[2].end_balance), Val(stmtAll[2].start_balance)) = "0.3"
    /\ OwnedSum(stmtAll[2], Len(stmtAll[2].all_transactions)) = "0.30000000000000004"
    /\ printed = <<[file_path |-> stmtAll[1].file_path, missing |-> "19.8"]>>

\* C13: the reconciliation never aborts: from the end of the loading and
\* while it goes through the recorded statements, also through one without
\* transactions or with a null balance, no step raises.
C13_ReconciliationNeverAborts ==
    [][(pc \in {"done", "validate"}) => (pc' # "crashed")]_vars

\* the booking date of the n-th transaction of the global registry, as a
\* number that orders the dates
DateKey(n) == ParseDate(Val(heap[txAll[n]].date_booked)).key

\* C14: after sort_transactions and the renumbering of save_transactions_json
\* the ids of the global registry in list order are 1, 2, ..., N, the booking
\* dates do not decrease along the list, and two transactions of one booking
\* date are in the order of their creation.
C14_SortedAndRenumbered ==
    pc = "saved"
    => /\ \A n \in 1..Len(txAll) : heap[txAll[n]].transaction_id = n
       /\ \A m, n \in 1..Len(txAll) :
             m < n => /\ DateKey(m) <= DateKey(n)
                      /\ DateKey(m) = DateKey(n) => txAll[m] < txAll[n]

\* the export has sorted a registry in which a later transaction has an
\* earlier date and three transactions share one date
C14_Witness ==
    /\ pc = "saved"
    /\ Len(txAll) >= 4
    /\ \E n \in 1..Len(txAll) : txAll[n] # n
    /\ \E m, n \in 1..Len(txAll) : m + 1 < n /\ DateKey(m) = DateKey(n)

\* C15: before the renumbering, the transactions of every kind and of both
\* paths have their ids from one counter: the first created has id 1, each
\* later one the id before plus 1, so the ids of the global registry are
\* pairwise distinct and increase along the list.
C15_IdsFromOneCounter ==
    pc \notin {"saved", "exported", "resaved"}
    => /\ Len(txAll) = Len(heap)
       /\ nextId = Len(heap) + 1
       /\ \A n \in 1..Len(txAll) : txAll[n] = n /\ heap[n].transaction_id = n
       /\ \A m, n \in 1..Len(txAll) :
             m < n => heap[txAll[m]].transaction_id < heap[txAll[n]].transaction_id

\* transactions of a PDF statement and of a CSV statement, of several kinds,
\* are in the registry
C15_Witness ==
    /\ pc = "done"
    /\ Len(txAll) >= 3
    /\ \E m, n \in 1..Len(heap) :
          /\ ~IsCsvPath(Val(heap[m].parent_statement))
          /\ IsCsvPath(Val(heap[n].parent_statement))
          /\ heap[m].kind # heap[n].kind
          /\ heap[n].transaction_id = heap[m].transaction_id + 1

(***************************************************************************)
(* Properties of load_transactions_json                                    *)
(***************************************************************************)
\* the next step loads a record of transactions.json
RecordStep == pc = "load" /\ json_file # None /\ line < Len(Val(json_file))

\* the record that the next step loads
CurRecord == Val(json_file)[line + 1]

\* C16: loading a file that save_transactions_json has written into an empty
\* registry reconstructs, for every record whose type is one of the twelve
\* kinds, one Transaction of that kind with the field values of the record.
C16_RoundTrip ==
    [][(RecordStep /\ CurRecord.with_id /\ CurRecord.type \in KindSet)
       => /\ pc' = "load"
          /\ Len(heap') = Len(heap) + 1
          /\ txAll' = Append(txAll, Len(heap'))
          /\ heap'[Len(heap')].kind = CurRecord.type
          /\ [heap'[Len(heap')] EXCEPT !.transaction_id = 0]
                = [CurRecord.tx EXCEPT !.transaction_id = 0]]_vars

\* the type names that name a kind: the names of the twelve classes
KnownKindNames == KindSet

\* C17: a record whose type is not a known kind name creates no Transaction
\* and raises no error: the load goes on to the next record and leaves the
\* registries and the id counter as they are.  When transactions.json does
\* not exist the load ends without an error and leaves the registries as
\* they are.
C17_UnknownTypeAndMissingFile ==
    [][/\ (RecordStep /\ CurRecord.type \notin KnownKindNames)
          => /\ pc' = "load"
             /\ line' = line + 1
             /\ UNCHANGED <<heap, txAll, stmtAll, nextId>>
       /\ (pc = "load" /\ json_file = None)
          => /\ pc' = "loaded"
             /\ UNCHANGED <<heap, txAll, stmtAll, nextId>>]_vars

(***************************************************************************)
(* Properties of the statements without a bank                             *)
(***************************************************************************)
\* C18: a PDF statement in which no line contains a known bank name is still
\* recorded: its loading raises no error and creates no transaction, and when
\* it is over the statement registry holds the StatementAccount of the file
\* with a null bank identity and an empty list of transactions.
C18_NoBankStillRecorded ==
    (/\ pc \in {"pdf", "crashed", "done"}
     /\ EndsWith(Lower(cur.file_path), ".pdf")
     /\ get_bank_name_pdf(cur.pages_content_pdf) = None)
    => /\ pc # "crashed"
       /\ cur.bank_name = None
       /\ cur.all_transactions = <<>>
       /\ pc = "done" => (stmtAll # <<>> /\ stmtAll[Len(stmtAll)] = cur)

(***************************************************************************)
(* Properties of the file discovery                                        *)
(***************************************************************************)
\* the paths of the files whose name ends with one of the suffixes when
\* letter case is ignored in both, in the order of the walk
RECURSIVE FilesIgnoringCase(_, _)
FilesIgnoringCase(filenames, suffixes) ==
    IF filenames = <<>> THEN <<>>
    ELSE (IF \E n \in 1..Len(suffixes) :
                EndsWith(Lower(Head(filenames).name), Lower(suffixes[n]))
          THEN <<PathJoin(Head(filenames).dirpath, Head(filenames).name)>>
          ELSE <<>>)
         \o FilesIgnoringCase(Tail(filenames), suffixes)

\* C19: get_files_to_process returns every file under the root directory
\* whose name ends with one of the requested suffixes, whatever the letter
\* case of the name and of the suffix, and returns no other file.
C19_CaseInsensitiveSuffix ==
    pc = "walked"
    => Val(walk.files) = FilesIgnoringCase(walk.filenames, walk.suffixes)

(***************************************************************************)
(* Properties of the amount parsing                                        *)
(***************************************************************************)
\* the numeral of an amount text without its separators of thousands and
\* with a point for the comma
NumeralOf(text) ==
    Replace(Replace(Replace(text, " ", ""), NBSP, ""), ",", ".")

\* an optional sign and digits with at most one decimal separator
IsNumeric(text) == IsDecimal(Unsigned(NumeralOf(text)))

\* the hundredths that the decimal value of a numeral ip.fp rounds to: the
\* nearest ones, and either neighbour when the value is the middle of two
DecimalRounded(ip, fp) ==
    The({IF rest > 0 THEN {base + 1}
         ELSE IF rest < 0 THEN {base}
         ELSE {base, base + 1} :
            base \in {100 * DigitsValue(ip) + DigitsValue(SubSeq(fp \o "00", 1, 2))},
            rest \in {CompareDigits(NoZerosRight(SubSeq(fp, 3, Len(fp))), "5")}})

\* the floats of the signed hundredths that the value of a numeric amount
\* text rounds to
CorrectAmounts(text) ==
    The({{FloatOfDecimal(SignOf(NumeralOf(text)) < 0, NoZerosRight(DigitsText(h)),
                         Len(DigitsText(h)) - 2) :
            h \in DecimalRounded(SubSeq(body, 1, DotOf(body) - 1),
                                 SubSeq(body, DotOf(body) + 1, Len(body)))} :
            body \in {Unsigned(NumeralOf(text))}})

\* C20: for an amount text of an optional sign, digits with spaces or
\* non-breaking spaces between the thousands and a comma or a point before
\* the decimals, pdf_amount_to_float returns the signed value of the text
\* rounded to two decimals; for a text that is not numeric once the
\* separators are removed it raises an error and returns no value.
C20_AmountParsing ==
    pc = "parsed"
    => IF IsNumeric(conversion.text)
       THEN /\ Val(conversion.result).ok
            /\ \E v \in CorrectAmounts(conversion.text) :
                  FloatEqual(Val(conversion.result).val, v)
       ELSE ~Val(conversion.result).ok

(***************************************************************************)
(* Properties of the search for the amount line                            *)
(***************************************************************************)
\* the characters of a line that are no sign, space, point or comma
Unseparated(text) ==
    Replace(Replace(Replace(Replace(Replace(Replace(
        text, ",", ""), ".", ""), NBSP, ""), " ", ""), "-", ""), "+", "")

\* a line with a sign, or "0.00", that is made of digits besides its signs and
\* separators
QualifiesAsAmount(text) ==
    /\ (\E i \in 1..Len(text) : Char(text, i) \in {"+", "-"}) \/ text = "0.00"
    /\ Unseparated(text) # ""
    /\ \A i \in 1..Len(Unseparated(text)) : Char(Unseparated(text), i) \in Digits

\* the indices, from 0, of the lines from scan.from on that qualify
QualifyingFrom ==
    {k \in 0..(Len(scan.lines) - 1) : k >= scan.from /\ QualifiesAsAmount(scan.lines[k + 1])}

\* C21: get_amount_line(lines, k) returns the first line at an index >= k that
\* has a '+' or a '-' or is "0.00" and is made of digits once signs, spaces,
\* non-breaking spaces, points and commas are removed, with the index of that
\* line counted from k; it returns (None, None) when no line from k on
\* qualifies.
C21_FirstAmountLine ==
    pc = "scanned"
    => IF QualifyingFrom = {}
       THEN Val(scan.found) = [line |-> None, idx |-> None]
       ELSE \E k \in QualifyingFrom :
               /\ \A j \in QualifyingFrom : k <= j
               /\ Val(scan.found).line = Some(scan.lines[k + 1])
               /\ Val(scan.found).idx = Some(k - scan.from)

\* a search from the second line that passes over a line with a sign that is
\* no amount and returns the third line although the first line is an amount
C21_Witness ==
    /\ pc = "scanned"
    /\ scan.from = 1
    /\ Len(scan.lines) = 3
    /\ QualifiesAsAmount(scan.lines[1])
    /\ ~QualifiesAsAmount(scan.lines[2])
    /\ \E i \in 1..Len(scan.lines[2]) : Char(scan.lines[2], i) \in {"+", "-"}
    /\ Val(scan.found).line = Some(scan.lines[3])
    /\ Val(scan.found).idx = Some(1)

\* C28: every line that get_amount_line returns as the amount line is accepted
\* by pdf_amount_to_float once it is trimmed: the conversion of the line that
\* the search has selected raises no error.
C28_FoundLineConverts ==
    pc = "converted" => Val(conversion.result).ok

(***************************************************************************)
(* Properties of the two exports                                           *)
(***************************************************************************)
\* C22: in every run of main() the two exports follow the sort and the
\* renumbering: transactions.csv is written only after transactions.json, and
\* between the two no Transaction is created, reordered or renumbered, so both
\* files list the transactions of the global registry in its sorted order with
\* the ids 1..N.
C22_ExportsAfterSort ==
    [][/\ (csv_file' # csv_file) => (pc = "saved" /\ json_file # None)
       /\ (pc = "saved")
          => /\ pc' = "exported"
             /\ heap' = heap
             /\ txAll' = txAll
             /\ json_file' = json_file
             /\ csv_file' # None
             /\ Len(Val(json_file)) = Len(txAll)
             /\ Len(Val(csv_file')) = Len(txAll)
             /\ \A n \in 1..Len(txAll) :
                   /\ Val(json_file)[n].tx = heap[txAll[n]]
                   /\ Val(json_file)[n].tx.transaction_id = n
                   /\ Val(csv_file')[n].transaction_id = n
                   /\ Val(csv_file')[n] = CsvRow(heap[txAll[n]])
             /\ \A m, n \in 1..Len(txAll) : m < n => DateKey(m) <= DateKey(n)]_vars

\* both files are written for a registry of three transactions or more that
\* the sort has reordered
C22_Witness ==
    /\ pc = "exported"
    /\ Len(txAll) >= 3
    /\ \E n \in 1..Len(txAll) : txAll[n] # n
    /\ json_file # None
    /\ csv_file # None
    /\ Len(Val(csv_file)) = Len(txAll)

(***************************************************************************)
(* Properties of the create operations                                     *)
(***************************************************************************)
\* C23: for the banks cs and csob and every kind, the create operation that
\* the engine calls for a line with a marker of the kind returns a Transaction
\* and never no value, so no missing entry is stored in the list of the
\* statement.
C23_CreateReturnsTransaction ==
    [][(LineStep /\ Dispatch(CurBank, CurText) # <<>>)
       => /\ Create(Dispatch(CurBank, CurText)[1], CurBank, cur.year, cur.account_number,
                    line, cur.pages_content_pdf[page]).st # "none"
          /\ \A n \in 1..Len(cur'.all_transactions) : cur'.all_transactions[n] # 0]_vars

(***************************************************************************)
(* Properties of the transactions of the CSV path                          *)
(***************************************************************************)
\* C24: every Transaction that the CSV path has created has an amount whose
\* sign fits its kind: below zero for OutgoingPayment, CardPaymentDebit,
\* CardAtmCashOut and BankPayedService, the synthesized fee included; zero or
\* more for IncomingPayment and CardPaymentIncoming.  An Amount that float()
\* reads as nan is below zero for no rule, so the row makes a transaction of
\* an incoming kind whose amount is no number.
C24_AmountSignFitsKind ==
    \A h \in 1..Len(heap) :
        /\ heap[h].kind \in {"OutgoingPayment", "CardPaymentDebit", "CardAtmCashOut",
                             "BankPayedService"} => FloatLess(heap[h].amount, "0")
        /\ heap[h].kind \in {"IncomingPayment", "CardPaymentIncoming"}
              => ~IsNaN(heap[h].amount) /\ ~FloatLess(heap[h].amount, "0")

(***************************************************************************)
(* Properties of the reconciliation of a CSV statement                     *)
(***************************************************************************)
\* a CSV statement with a row at least, in which every row is Completed, has
\* fields that convert and a Type and a sign of Amount that map to a kind, and
\* has the Balance of the row before plus its Amount minus its Fee as Balance
BalancesChain(s) ==
    /\ IsCsvPath(s.file_path)
    /\ s.csv_content # <<>>
    /\ \A n \in 1..Len(s.csv_content) :
          /\ Lower(s.csv_content[n]["State"]) = "completed"
          /\ ParseRow(s.csv_content[n]).ok
          /\ ParseFloat(s.csv_content[n]["Balance"]).ok
          /\ ClaimedKind(Lower(s.csv_content[n]["Type"]),
                         FloatLess(ParseRow(s.csv_content[n]).amount, "0")) # <<>>
          /\ n > 1 => FloatEqual(ParseFloat(s.csv_content[n]["Balance"]).val,
                                 FloatSub(FloatAdd(ParseFloat(s.csv_content[n - 1]["Balance"]).val,
                                                   ParseRow(s.csv_content[n]).amount),
                                          ParseRow(s.csv_content[n]).fee))

\* C29: for a CSV statement whose rows are all Completed, map to a kind and
\* have balances that follow from one another, the reconciliation finds no
\* mismatch and prints no warning: closing balance minus opening balance is,
\* to the hundredth, the sum of the amounts of the transactions of the
\* statement, the fee transactions included.
C29_ConsistentCsvReconciles ==
    [][(pc' = "validate" /\ checked' = checked + 1 /\ BalancesChain(stmtAll[checked']))
       => /\ printed' = printed
          /\ FloatEqual(Round2(FloatSub(Val(stmtAll[checked'].end_balance),
                                        Val(stmtAll[checked'].start_balance))),
                        Round2(OwnedSum(stmtAll[checked'],
                                        Len(stmtAll[checked'].all_transactions))))]_vars

(***************************************************************************)
(* Properties of the two registries                                        *)
(***************************************************************************)
\* the recorded statements whose local list holds transaction h
OwnersOf(h) ==
    {k \in 1..Len(stmtAll) :
        \E i \in 1..Len(stmtAll[k].all_transactions) : stmtAll[k].all_transactions[i] = h}

\* C25: whenever no file is being processed, also after the extraction of a
\* file has raised an error, every Transaction of the global registry is in
\* the local list of exactly one StatementAccount of the statement registry.
C25_RegistriesAgree ==
    pc \in {"start", "done", "crashed"}
    => \A n \in 1..Len(txAll) : Cardinality(OwnersOf(txAll[n])) = 1

(***************************************************************************)
(* Properties of the bodies of the transactions                            *)
(***************************************************************************)
\* C26: while the PDF engine is Accumulating, the list of the statement is
\* not empty, and a step changes the raw body of a transaction only by
\* appending a line to the last transaction of the list of the statement that
\* is read: the body of an earlier transaction of the statement and of a
\* transaction of another statement never changes.
C26_OnlyLastBodyGrows ==
    [][/\ (pc = "pdf" /\ active)
          => /\ cur.all_transactions # <<>>
             /\ cur.all_transactions[Len(cur.all_transactions)] \in 1..Len(heap)
       /\ \A h \in 1..Len(heap) :
             (h <= Len(heap')
              /\ heap'[h].all_transaction_lines_text # heap[h].all_transaction_lines_text)
             => /\ pc = "pdf"
                /\ active
                /\ h = cur.all_transactions[Len(cur.all_transactions)]
                /\ heap'[h].all_transaction_lines_text
                      = heap[h].all_transaction_lines_text \o Strip(CurText) \o "\n"]_vars

\* a line has been appended to the body of the second transaction of the
\* second statement, and the first statement and the first transaction have
\* bodies of their own
C26_Witness ==
    /\ pc = "pdf"
    /\ active
    /\ Len(stmtAll) = 1
    /\ stmtAll[1].all_transactions # <<>>
    /\ Len(cur.all_transactions) >= 2
    /\ last.text # ""
    /\ EndsWith(heap[cur.all_transactions[Len(cur.all_transactions)]]
                    .all_transaction_lines_text, Strip(last.text) \o "\n")
    /\ heap[cur.all_transactions[1]].all_transaction_lines_text # ""

\* the lines of the page that is read, before the line to process, hold no
\* marker and no sentinel
AtStartOfPage ==
    \A j \in 1..line :
        /\ Matching(CurBank, cur.pages_content_pdf[page][j]) = {}
        /\ cur.pages_content_pdf[page][j] \notin TRANSACTION_END_SECTION

\* C27: the engine is Idle when the first page of a statement begins and is
\* not reset where a later page begins: when a page has ended while the engine
\* was Accumulating, a line at the start of the next page that is not empty,
\* no marker line and no sentinel is appended to the body of the last
\* transaction, which an earlier page has created, and the engine stays
\* Accumulating.
C27_StateCrossesPages ==
    [][/\ (pc = "start" /\ pc' = "pdf") => ~active'
       /\ (/\ LineStep
           /\ page > 1
           /\ active
           /\ AtStartOfPage
           /\ Matching(CurBank, CurText) = {}
           /\ CurText \notin TRANSACTION_END_SECTION
           /\ CurText # "")
          => /\ cur.all_transactions # <<>>
             /\ heap' = [heap EXCEPT
                            ![cur.all_transactions[Len(cur.all_transactions)]]
                                .all_transaction_lines_text = @ \o Strip(CurText) \o "\n"]
             /\ cur' = cur
             /\ active'
             /\ pc' = "pdf"]_vars

\* the first line of the second page has been appended to the body of the
\* transaction that the first page has created
C27_Witness ==
    /\ pc \in {"pdf", "done"}
    /\ last.page = 2
    /\ last.index = 0
    /\ last.text # ""
    /\ Matching(CurBank, last.text) = {}
    /\ active
    /\ Len(heap) = 1
    /\ EndsWith(heap[1].all_transaction_lines_text, Strip(last.text) \o "\n")

(***************************************************************************)
(* Properties of the repeated sort                                         *)
(***************************************************************************)
\* the transactions of the list all, as a set
Members(all) == {all[n] : n \in 1..Len(all)}

\* C30: sort_transactions with the renumbering, applied again to the registry
\* that it has sorted and renumbered, leaves the order of the registry and
\* every transaction id as they are; no application changes the membership of
\* the global registry or the list of a statement.
C30_SortIdempotent ==
    [][/\ (pc = "exported" /\ pc' # "load")
          => /\ pc' = "resaved"
             /\ txAll' = txAll
             /\ heap' = heap
             /\ json_file' = json_file
       /\ (pc' \in {"saved", "resaved"})
          => /\ Members(txAll') = Members(txAll)
             /\ Len(txAll') = Len(txAll)
             /\ stmtAll' = stmtAll
             /\ Len(heap') = Len(heap)
             /\ \A h \in 1..Len(heap) :
                   [heap'[h] EXCEPT !.transaction_id = 0]
                       = [heap[h] EXCEPT !.transaction_id = 0]]_vars

\* the second application was made on a registry that the first one has
\* reordered and in which two transactions have one booking date
C30_Witness ==
    /\ pc = "resaved"
    /\ Len(txAll) >= 3
    /\ \E n \in 1..Len(txAll) : txAll[n] # n
    /\ \E m, n \in 1..Len(txAll) : m < n /\ DateKey(m) = DateKey(n)

====
